---- MODULE Spec2Model ----
(***************************************************************************)
(* Model of the Shelly Prometheus exporter: the time-of-day rate resolver  *)
(* (config.CostConfig.GetCurrentRate), the dual-protocol status client     *)
(* (client.Client.GetStatus / getStatusLegacy) and the collection cycle    *)
(* (metrics.Collector.Collect).                                            *)
(*                                                                         *)
(* Strings the code inspects character by character (schedule time ranges) *)
(* are sequences of one-character strings.  Rates are in thousandths of a  *)
(* currency unit per kWh (0.18 is 180).                                    *)
(***************************************************************************)
EXTENDS Integers, Sequences, FiniteSets, TLC

\* ------------------------------------------------------------------------
\* Text helpers
\* ------------------------------------------------------------------------

DigitChars == <<"0", "1", "2", "3", "4", "5", "6", "7", "8", "9">>

\* value of a digit character (s[i] - '0')
DigitVal(ch) == (CHOOSE i \in 1..Len(DigitChars) : DigitChars[i] = ch) - 1

\* isDigit(s, i) of the time package; i is 1-based here
IsDigit(s, i) == i <= Len(s) /\ \E k \in 1..Len(DigitChars) : DigitChars[k] = s[i]

Tail2(s) == SubSeq(s, 3, Len(s))

\* getnum(s, fixed) of the time package: one or two leading digits, exactly
\* two when fixed
GetNum(s, fixed) ==
  IF ~IsDigit(s, 1) THEN [ok |-> FALSE, n |-> 0, rest |-> s]
  ELSE IF ~IsDigit(s, 2)
       THEN IF fixed THEN [ok |-> FALSE, n |-> 0, rest |-> s]
            ELSE [ok |-> TRUE, n |-> DigitVal(s[1]), rest |-> Tail(s)]
       ELSE [ok |-> TRUE, n |-> DigitVal(s[1]) * 10 + DigitVal(s[2]), rest |-> Tail2(s)]

HoursPerDay == 24
MinutesPerHour == 60
MinutesPerDay == HoursPerDay * MinutesPerHour

\* time.Parse("15:04", s): hour of one or two digits below 24, a colon, a
\* minute of exactly two digits below 60, and nothing after it.  The value
\* is the minute of the day (all parsed times share the date 0000-01-01).
ParseClock(s) ==
  LET h == GetNum(s, FALSE) IN
  IF ~h.ok \/ h.n >= HoursPerDay THEN [ok |-> FALSE, min |-> 0]
  ELSE IF Len(h.rest) = 0 \/ h.rest[1] # ":" THEN [ok |-> FALSE, min |-> 0]
  ELSE LET m == GetNum(Tail(h.rest), TRUE) IN
       IF ~m.ok \/ m.n >= MinutesPerHour \/ Len(m.rest) # 0
       THEN [ok |-> FALSE, min |-> 0]
       ELSE [ok |-> TRUE, min |-> h.n * MinutesPerHour + m.n]

\* now.Format("15:04"): zero-padded hour and minute of the wall clock
FormatClock(minute) ==
  LET h == minute \div MinutesPerHour
      m == minute % MinutesPerHour
  IN <<DigitChars[(h \div 10) + 1], DigitChars[(h % 10) + 1], ":",
       DigitChars[(m \div 10) + 1], DigitChars[(m % 10) + 1]>>

\* strings.Split(s, "-")
RECURSIVE Split(_)
Split(s) ==
  IF \A i \in 1..Len(s) : s[i] # "-" THEN <<s>>
  ELSE LET i == CHOOSE k \in 1..Len(s) : s[k] = "-" /\ \A j \in 1..(k - 1) : s[j] # "-"
       IN <<SubSeq(s, 1, i - 1)>> \o Split(SubSeq(s, i + 1, Len(s)))

\* ------------------------------------------------------------------------
\* Rate resolver (config.CostConfig.GetCurrentRate)
\* ------------------------------------------------------------------------

\* normal range: start <= current <= end
InNormalRangeExclusiveEnd(current, startTime, endTime) ==
  current >= startTime /\ current < endTime

InNormalRange(current, startTime, endTime) ==
  current >= startTime /\ current <= endTime

\* overnight range: current >= start or current <= end
InOvernightRangeConj(current, startTime, endTime) ==
  current >= startTime /\ current <= endTime

InOvernightRange(current, startTime, endTime) ==
  current >= startTime \/ current <= endTime

\* a slip: the errors of time.Parse are dropped, and a time that failed to
\* parse is the zero time 00:00
RateMatchesIgnoringParseError(rate, nowMinute) ==
  LET parts == Split(rate.Time) IN
  IF Len(parts) # 2 THEN FALSE
  ELSE LET startTime == ParseClock(parts[1])
           endTime == ParseClock(parts[2])
           current == ParseClock(FormatClock(nowMinute))
       IN IF endTime.min >= startTime.min
          THEN InNormalRange(current.min, startTime.min, endTime.min)
          ELSE InOvernightRange(current.min, startTime.min, endTime.min)

\* body of the loop over c.Rates for one entry: TRUE when the entry returns
RateMatches(rate, nowMinute) ==
  LET parts == Split(rate.Time) IN
  IF Len(parts) # 2 THEN FALSE
  ELSE LET startTime == ParseClock(parts[1])
           endTime == ParseClock(parts[2])
           current == ParseClock(FormatClock(nowMinute))
       IN IF ~startTime.ok \/ ~endTime.ok \/ ~current.ok THEN FALSE
          ELSE IF endTime.min >= startTime.min
               THEN InNormalRange(current.min, startTime.min, endTime.min)
               ELSE InOvernightRange(current.min, startTime.min, endTime.min)

\* a slip: the scan keeps going after a match, so the last matching entry wins
ScanRatesLastMatch(c, i, nowMinute) ==
  LET matching == {k \in i..Len(c.Rates) : RateMatches(c.Rates[k], nowMinute)} IN
  IF matching = {} THEN c.DefaultRate
  ELSE c.Rates[CHOOSE k \in matching : \A j \in matching : j <= k].Rate

RECURSIVE ScanRates(_, _, _)
ScanRates(c, i, nowMinute) ==
  IF i > Len(c.Rates) THEN c.DefaultRate
  ELSE IF RateMatches(c.Rates[i], nowMinute) THEN c.Rates[i].Rate
       ELSE ScanRates(c, i + 1, nowMinute)

\* a slip: the Enabled switch is not looked at
GetCurrentRateIgnoringEnabled(c, nowMinute) ==
  IF Len(c.Rates) = 0 THEN c.DefaultRate
  ELSE ScanRates(c, 1, nowMinute)

GetCurrentRate(c, nowMinute) ==
  IF ~c.Enabled THEN 0
  ELSE IF Len(c.Rates) = 0 THEN c.DefaultRate
       ELSE ScanRates(c, 1, nowMinute)

\* ------------------------------------------------------------------------
\* Schedules the resolver is exercised with
\* ------------------------------------------------------------------------

Clock(h1, h2, m1, m2) == <<h1, h2, ":", m1, m2>>
Range(a, b) == a \o <<"-">> \o b

T0000 == Clock("0", "0", "0", "0")
T0001 == Clock("0", "0", "0", "1")
T0600 == Clock("0", "6", "0", "0")
T2200 == Clock("2", "2", "0", "0")
T2359 == Clock("2", "3", "5", "9")
T2400 == Clock("2", "4", "0", "0")

NightRate == 120
DayRate == 180
OvernightRate == 100
DocDefaultRate == 150
RuleRate == 200

\* the schedule of docs/configuration.md and TestGetCurrentRate
DocSchedule ==
  [Enabled |-> TRUE, DefaultRate |-> DocDefaultRate,
   Rates |-> <<[Time |-> Range(T0000, T0600), Rate |-> NightRate],
               [Time |-> Range(T0600, T2200), Rate |-> DayRate],
               [Time |-> Range(T2200, T2400), Rate |-> NightRate]>>]

\* the overnight schedule of TestGetCurrentRate
OvernightSchedule ==
  [Enabled |-> TRUE, DefaultRate |-> DocDefaultRate,
   Rates |-> <<[Time |-> Range(T2200, T0600), Rate |-> OvernightRate],
               [Time |-> Range(T0600, T2200), Rate |-> DayRate]>>]

\* times of day a single rule is built from
TimePoints == {T0000, T0001, T0600, T2200, T2359}

SingleRule(a, b) ==
  [Enabled |-> TRUE, DefaultRate |-> DocDefaultRate,
   Rates |-> <<[Time |-> Range(a, b), Rate |-> RuleRate]>>]

SingleRuleSchedules == {SingleRule(a, b) : a \in TimePoints, b \in TimePoints}

\* two rules, the 06:00-22:00 rule of the tests after or before another one
RuleThenDay(a, b) ==
  [Enabled |-> TRUE, DefaultRate |-> DocDefaultRate,
   Rates |-> <<[Time |-> Range(a, b), Rate |-> RuleRate],
               [Time |-> Range(T0600, T2200), Rate |-> DayRate]>>]

DayThenRule(a, b) ==
  [Enabled |-> TRUE, DefaultRate |-> DocDefaultRate,
   Rates |-> <<[Time |-> Range(T0600, T2200), Rate |-> DayRate],
               [Time |-> Range(a, b), Rate |-> RuleRate]>>]

TwoRuleSchedules ==
  {RuleThenDay(a, b) : a \in TimePoints, b \in TimePoints}
    \cup {DayThenRule(a, b) : a \in TimePoints, b \in TimePoints}

\* schedule entries the scan skips: "invalid-format" of TestGetCurrentRate,
\* a text without separator, one with two, an hour of 25, a minute of 60
InvalidFormat == <<"i", "n", "v", "a", "l", "i", "d", "-", "f", "o", "r", "m", "a", "t">>
NoSeparator == T0600
TwoSeparators == Range(Range(T0000, T0600), T2200)
BadStart == Range(Clock("2", "5", "0", "0"), T2200)
BadEnd == Range(T0600, Clock("2", "2", "6", "0"))

MalformedEntries == {InvalidFormat, NoSeparator, TwoSeparators, BadStart, BadEnd}

MalformedOnly(e) ==
  [Enabled |-> TRUE, DefaultRate |-> DocDefaultRate,
   Rates |-> <<[Time |-> e, Rate |-> RuleRate]>>]

MalformedThenDay(e) ==
  [Enabled |-> TRUE, DefaultRate |-> DocDefaultRate,
   Rates |-> <<[Time |-> e, Rate |-> RuleRate],
               [Time |-> Range(T0600, T2200), Rate |-> DayRate]>>]

MalformedSchedules ==
  {MalformedOnly(e) : e \in MalformedEntries}
    \cup {MalformedThenDay(e) : e \in MalformedEntries}

NoRules == [Enabled |-> TRUE, DefaultRate |-> DocDefaultRate, Rates |-> <<>>]
Disabled == [Enabled |-> FALSE, DefaultRate |-> DocDefaultRate,
             Rates |-> DocSchedule.Rates]

\* cost calculation switched off, whatever else is configured
SwitchedOff(c) == [c EXCEPT !.Enabled = FALSE]

DisabledConfigs ==
  {SwitchedOff(c) : c \in {DocSchedule, OvernightSchedule, NoRules,
                           SingleRule(T0000, T2359), MalformedOnly(InvalidFormat)}}
    \cup {[SwitchedOff(NoRules) EXCEPT !.DefaultRate = DayRate]}

CostConfigs ==
  {DocSchedule, OvernightSchedule, NoRules, Disabled} \cup DisabledConfigs
    \cup SingleRuleSchedules \cup TwoRuleSchedules \cup MalformedSchedules

\* minute of the day written by a well-formed "HH:MM" text
ClockMinutes(s) ==
  (DigitVal(s[1]) * 10 + DigitVal(s[2])) * MinutesPerHour + DigitVal(s[4]) * 10 + DigitVal(s[5])

\* the value of rate before GetCurrentRate has returned; no rate is negative
NoRate == 0 - 1

\* ------------------------------------------------------------------------
\* JSON bodies and the two wire schemas (client.StatusResponse,
\* client.LegacyStatusResponse).  A body is either not decodable at all
\* (valid = FALSE; cause says why) or an object: a function from key paths
\* to typed values.  Powers are whole watts.
\* ------------------------------------------------------------------------

EmptyObj == [k \in {} |-> 0]

Str(v) == [t |-> "str", v |-> v]
Num(v) == [t |-> "num", v |-> v]
Bool(v) == [t |-> "bool", v |-> v]
Arr(v) == [t |-> "arr", v |-> v]

Object(o) == [valid |-> TRUE, cause |-> "", obj |-> o]
Garbage == [valid |-> FALSE, cause |-> "syntax", obj |-> EmptyObj]
\* a body whose read was cut off by a timeout
Truncated == [valid |-> FALSE, cause |-> "timeout", obj |-> EmptyObj]

\* json tags of StatusResponse and the Go type each decodes into
StatusSchema ==
  ("sys.mac" :> "str") @@ ("sys.uptime" :> "num") @@
  ("sys.ram_size" :> "num") @@ ("sys.ram_free" :> "num") @@
  ("sys.fs_size" :> "num") @@ ("sys.fs_free" :> "num") @@
  ("sys.available_updates.stable.version" :> "str") @@
  ("wifi.sta_ip" :> "str") @@ ("wifi.status" :> "str") @@
  ("wifi.ssid" :> "str") @@ ("wifi.rssi" :> "num") @@
  ("cloud.connected" :> "bool") @@ ("mqtt.connected" :> "bool") @@
  ("temperature:0.tC" :> "num") @@
  ("em:0.a_act_power" :> "num") @@ ("em:0.b_act_power" :> "num") @@
  ("em:0.c_act_power" :> "num") @@ ("em:0.total_act_power" :> "num") @@
  ("emdata:0.total_act" :> "num") @@
  ("mac" :> "str") @@ ("serial" :> "str") @@ ("has_update" :> "bool") @@
  ("ram_size" :> "num") @@ ("ram_free" :> "num") @@
  ("fs_size" :> "num") @@ ("fs_free" :> "num") @@ ("uptime" :> "num") @@
  ("relays" :> "arr") @@ ("meters" :> "arr")

\* json tags of LegacyStatusResponse
LegacySchema ==
  ("wifi_sta.connected" :> "bool") @@ ("wifi_sta.ssid" :> "str") @@
  ("wifi_sta.ip" :> "str") @@ ("wifi_sta.rssi" :> "num") @@
  ("cloud.connected" :> "bool") @@ ("mqtt.connected" :> "bool") @@
  ("serial" :> "num") @@ ("has_update" :> "bool") @@ ("mac" :> "str") @@
  ("relays" :> "arr") @@ ("meters" :> "arr") @@ ("temperature" :> "num") @@
  ("ram_size" :> "num") @@ ("ram_free" :> "num") @@
  ("fs_size" :> "num") @@ ("fs_free" :> "num") @@ ("uptime" :> "num")

\* a slip: an object with none of the known keys is refused
DecodesSomeKnownKey(body, schema) ==
  /\ body.valid
  /\ \E k \in DOMAIN body.obj : k \in DOMAIN schema
  /\ \A k \in DOMAIN body.obj : k \in DOMAIN schema => body.obj[k].t = schema[k]

\* json.Decoder.Decode: fails on a body that is not JSON and on a known key
\* whose value has the wrong type; unknown keys are ignored
Decodes(body, schema) ==
  /\ body.valid
  /\ \A k \in DOMAIN body.obj : k \in DOMAIN schema => body.obj[k].t = schema[k]

\* a decoded field: the value of the key, or the zero value when absent
Field(body, k, zero) == IF k \in DOMAIN body.obj THEN body.obj[k].v ELSE zero

\* the error a failed Decode reports
DecodeCause(body) == IF body.valid THEN "type" ELSE body.cause

\* json.NewDecoder(resp.Body).Decode(&status) for a StatusResponse
DecodeStatusResponse(body) ==
  [Sys |-> [Mac |-> Field(body, "sys.mac", ""),
            Uptime |-> Field(body, "sys.uptime", 0),
            RAMSize |-> Field(body, "sys.ram_size", 0),
            RAMFree |-> Field(body, "sys.ram_free", 0),
            FSSize |-> Field(body, "sys.fs_size", 0),
            FSFree |-> Field(body, "sys.fs_free", 0),
            AvailableVersion |-> Field(body, "sys.available_updates.stable.version", "")],
   Wifi |-> [StaIP |-> Field(body, "wifi.sta_ip", ""),
             Status |-> Field(body, "wifi.status", ""),
             SSID |-> Field(body, "wifi.ssid", ""),
             RSSI |-> Field(body, "wifi.rssi", 0)],
   Cloud |-> [Connected |-> Field(body, "cloud.connected", FALSE)],
   MQTT |-> [Connected |-> Field(body, "mqtt.connected", FALSE)],
   Temperature |-> [TC |-> Field(body, "temperature:0.tC", 0)],
   EM |-> [AActPower |-> Field(body, "em:0.a_act_power", 0),
           BActPower |-> Field(body, "em:0.b_act_power", 0),
           CActPower |-> Field(body, "em:0.c_act_power", 0),
           TotalActPower |-> Field(body, "em:0.total_act_power", 0)],
   EMData |-> [TotalAct |-> Field(body, "emdata:0.total_act", 0)],
   Mac |-> Field(body, "mac", ""),
   Serial |-> Field(body, "serial", ""),
   HasUpdate |-> Field(body, "has_update", FALSE),
   RAMSize |-> Field(body, "ram_size", 0),
   RAMFree |-> Field(body, "ram_free", 0),
   FSSize |-> Field(body, "fs_size", 0),
   FSFree |-> Field(body, "fs_free", 0),
   Uptime |-> Field(body, "uptime", 0),
   Relays |-> Field(body, "relays", <<>>),
   Meters |-> Field(body, "meters", <<>>)]

\* the zero StatusResponse (var status StatusResponse)
ZeroStatus == DecodeStatusResponse(Object(EmptyObj))

\* json.NewDecoder(resp.Body).Decode(&legacyStatus)
DecodeLegacyStatusResponse(body) ==
  [WifiSta |-> [Connected |-> Field(body, "wifi_sta.connected", FALSE),
                SSID |-> Field(body, "wifi_sta.ssid", ""),
                IP |-> Field(body, "wifi_sta.ip", ""),
                RSSI |-> Field(body, "wifi_sta.rssi", 0)],
   Cloud |-> [Connected |-> Field(body, "cloud.connected", FALSE)],
   MQTT |-> [Connected |-> Field(body, "mqtt.connected", FALSE)],
   Serial |-> Field(body, "serial", 0),
   HasUpdate |-> Field(body, "has_update", FALSE),
   Mac |-> Field(body, "mac", ""),
   Relays |-> Field(body, "relays", <<>>),
   Meters |-> Field(body, "meters", <<>>),
   Temperature |-> Field(body, "temperature", 0),
   RAMSize |-> Field(body, "ram_size", 0),
   RAMFree |-> Field(body, "ram_free", 0),
   FSSize |-> Field(body, "fs_size", 0),
   FSFree |-> Field(body, "fs_free", 0),
   Uptime |-> Field(body, "uptime", 0)]

\* float64(meter.Total): exact for every counter below 2^53, which covers
\* every integer of this model
Float64OfInt64(n) == n

\* a plausible slip: the single meter also copied into phases B and C
ConvertLegacyAllPhases(legacyStatus) ==
  LET hasMeter == Len(legacyStatus.Meters) > 0
      power == IF hasMeter THEN legacyStatus.Meters[1].Power ELSE 0
  IN [ZeroStatus EXCEPT
        !.EM = [AActPower |-> power, BActPower |-> power, CActPower |-> power,
                TotalActPower |-> power],
        !.Relays = legacyStatus.Relays]

\* a plausible slip: cloud, MQTT and the update flag are carried over as well
ConvertLegacyWithCloud(legacyStatus) ==
  LET hasMeter == Len(legacyStatus.Meters) > 0 IN
  [ZeroStatus EXCEPT
     !.Mac = legacyStatus.Mac,
     !.Uptime = legacyStatus.Uptime,
     !.RAMSize = legacyStatus.RAMSize,
     !.RAMFree = legacyStatus.RAMFree,
     !.FSSize = legacyStatus.FSSize,
     !.FSFree = legacyStatus.FSFree,
     !.Sys.Mac = legacyStatus.Mac,
     !.Sys.Uptime = legacyStatus.Uptime,
     !.Sys.RAMSize = legacyStatus.RAMSize,
     !.Sys.RAMFree = legacyStatus.RAMFree,
     !.Sys.FSSize = legacyStatus.FSSize,
     !.Sys.FSFree = legacyStatus.FSFree,
     !.Sys.AvailableVersion = IF legacyStatus.HasUpdate THEN "available" ELSE "",
     !.HasUpdate = legacyStatus.HasUpdate,
     !.Cloud.Connected = legacyStatus.Cloud.Connected,
     !.MQTT.Connected = legacyStatus.MQTT.Connected,
     !.Wifi.StaIP = legacyStatus.WifiSta.IP,
     !.Wifi.SSID = legacyStatus.WifiSta.SSID,
     !.Wifi.RSSI = legacyStatus.WifiSta.RSSI,
     !.Wifi.Status = IF legacyStatus.WifiSta.Connected THEN "got ip" ELSE "",
     !.Temperature.TC = legacyStatus.Temperature,
     !.Relays = legacyStatus.Relays,
     !.EM.AActPower = IF hasMeter THEN legacyStatus.Meters[1].Power ELSE 0,
     !.EM.TotalActPower = IF hasMeter THEN legacyStatus.Meters[1].Power ELSE 0,
     !.EMData.TotalAct = IF hasMeter THEN legacyStatus.Meters[1].Total ELSE 0]

\* "Convert legacy response to standard StatusResponse"
ConvertLegacy(legacyStatus) ==
  LET hasMeter == Len(legacyStatus.Meters) > 0 IN
  [ZeroStatus EXCEPT
     !.Mac = legacyStatus.Mac,
     !.Uptime = legacyStatus.Uptime,
     !.RAMSize = legacyStatus.RAMSize,
     !.RAMFree = legacyStatus.RAMFree,
     !.FSSize = legacyStatus.FSSize,
     !.FSFree = legacyStatus.FSFree,
     !.Sys.Mac = legacyStatus.Mac,
     !.Sys.Uptime = legacyStatus.Uptime,
     !.Sys.RAMSize = legacyStatus.RAMSize,
     !.Sys.RAMFree = legacyStatus.RAMFree,
     !.Sys.FSSize = legacyStatus.FSSize,
     !.Sys.FSFree = legacyStatus.FSFree,
     !.Wifi.StaIP = legacyStatus.WifiSta.IP,
     !.Wifi.SSID = legacyStatus.WifiSta.SSID,
     !.Wifi.RSSI = legacyStatus.WifiSta.RSSI,
     !.Wifi.Status = IF legacyStatus.WifiSta.Connected THEN "got ip" ELSE "",
     !.Temperature.TC = legacyStatus.Temperature,
     !.Relays = IF Len(legacyStatus.Relays) > 0 THEN legacyStatus.Relays ELSE <<>>,
     !.EM.AActPower = IF hasMeter THEN legacyStatus.Meters[1].Power ELSE 0,
     !.EM.TotalActPower = IF hasMeter THEN legacyStatus.Meters[1].Power ELSE 0,
     !.EMData.TotalAct = IF hasMeter THEN Float64OfInt64(legacyStatus.Meters[1].Total) ELSE 0]

\* ------------------------------------------------------------------------
\* Dual-protocol client (client.Client.GetStatus, getStatusLegacy)
\* ------------------------------------------------------------------------

StatusOK == 200

\* the nil *StatusResponse
NoStatus == [nil |-> TRUE]

NoError == [msg |-> "none", code |-> 0, cause |-> ""]
Failure(msg, code, cause) ==
  [kind |-> "failed", status |-> NoStatus,
   err |-> [msg |-> msg, code |-> code, cause |-> cause]]
Success(status) == [kind |-> "done", status |-> status, err |-> NoError]
\* the RPC attempt hands over to getStatusLegacy
TryLegacy == [kind |-> "legacy", status |-> NoStatus, err |-> NoError]

\* What one httpClient.Do and the read of its body give: err is "none" when
\* an HTTP response arrived, else the transport error.
Response(status, body) == [err |-> "none", status |-> status, body |-> body]
TransportError(cause) == [err |-> cause, status |-> 0, body |-> Garbage]

\* getStatusLegacy with a missing status check: a non-200 answer is decoded
getStatusLegacyNoStatusCheck(urlOk, o) ==
  IF ~urlOk THEN Failure("create", 0, "url")
  ELSE IF o.err # "none" THEN Failure("execute", 0, o.err)
  ELSE IF ~Decodes(o.body, LegacySchema) THEN Success(ZeroStatus)
  ELSE Success(ConvertLegacy(DecodeLegacyStatusResponse(o.body)))

\* getStatusLegacy: the request to {baseURL}/status and its conversion
getStatusLegacy(urlOk, o) ==
  IF ~urlOk THEN Failure("create", 0, "url")
  ELSE IF o.err # "none" THEN Failure("execute", 0, o.err)
  ELSE IF o.status # StatusOK THEN Failure("status", o.status, "")
  ELSE IF ~Decodes(o.body, LegacySchema) THEN Failure("decode", 0, DecodeCause(o.body))
  ELSE Success(ConvertLegacy(DecodeLegacyStatusResponse(o.body)))

\* the RPC attempt without fallback: non-200 and decode errors are returned
RpcAttemptNoFallback(urlOk, o) ==
  IF ~urlOk THEN Failure("create", 0, "url")
  ELSE IF o.err # "none" THEN Failure("execute", 0, o.err)
  ELSE IF o.status # StatusOK THEN Failure("status", o.status, "")
  ELSE IF ~Decodes(o.body, StatusSchema) THEN Failure("decode", 0, DecodeCause(o.body))
  ELSE Success(DecodeStatusResponse(o.body))

\* the RPC attempt falling back on transport errors too
RpcAttemptFallbackOnError(urlOk, o) ==
  IF ~urlOk THEN Failure("create", 0, "url")
  ELSE IF o.err # "none" THEN TryLegacy
  ELSE IF o.status # StatusOK THEN TryLegacy
  ELSE IF ~Decodes(o.body, StatusSchema) THEN TryLegacy
  ELSE Success(DecodeStatusResponse(o.body))

\* GetStatus up to the point where it returns or calls getStatusLegacy
RpcAttempt(urlOk, o) ==
  IF ~urlOk THEN Failure("create", 0, "url")
  ELSE IF o.err # "none" THEN Failure("execute", 0, o.err)
  ELSE IF o.status # StatusOK THEN TryLegacy
  ELSE IF ~Decodes(o.body, StatusSchema) THEN TryLegacy
  ELSE Success(DecodeStatusResponse(o.body))

\* a whole GetStatus call, given what the two exchanges would give
GetStatus(urlOk, rpc, legacy) ==
  LET r == RpcAttempt(urlOk, rpc) IN
  IF r.kind = "legacy" THEN getStatusLegacy(urlOk, legacy) ELSE r

\* ------------------------------------------------------------------------
\* Device answers the client is exercised with
\* ------------------------------------------------------------------------

RelayOn == [IsOn |-> TRUE, Overpower |-> FALSE, IsValid |-> TRUE]
RelayTripped == [IsOn |-> FALSE, Overpower |-> TRUE, IsValid |-> TRUE]
MeterA == [Power |-> 150, Total |-> 12345, IsValid |-> TRUE]
MeterB == [Power |-> 40, Total |-> 777, IsValid |-> TRUE]

\* {} : a JSON object with none of the expected keys
EmptyBody == Object(EmptyObj)

\* a Pro 3EM answer to /rpc/Shelly.GetStatus
Pro3EMBody ==
  Object(("sys.mac" :> Str("AABBCC")) @@ ("sys.uptime" :> Num(500)) @@
         ("sys.available_updates.stable.version" :> Str("1.1.0")) @@
         ("wifi.status" :> Str("got ip")) @@ ("wifi.ssid" :> Str("net")) @@
         ("cloud.connected" :> Bool(TRUE)) @@ ("mqtt.connected" :> Bool(TRUE)) @@
         ("temperature:0.tC" :> Num(41)) @@
         ("em:0.a_act_power" :> Num(100)) @@ ("em:0.b_act_power" :> Num(50)) @@
         ("em:0.c_act_power" :> Num(25)) @@ ("em:0.total_act_power" :> Num(175)) @@
         ("emdata:0.total_act" :> Num(9000)))

\* a Shelly 1PM answer to /status (serial is a number there)
Shelly1PMBody ==
  Object(("wifi_sta.connected" :> Bool(TRUE)) @@ ("wifi_sta.ssid" :> Str("net")) @@
         ("wifi_sta.ip" :> Str("192.168.1.100")) @@ ("wifi_sta.rssi" :> Num(-45)) @@
         ("cloud.connected" :> Bool(TRUE)) @@ ("mqtt.connected" :> Bool(TRUE)) @@
         ("serial" :> Num(1)) @@ ("has_update" :> Bool(TRUE)) @@
         ("mac" :> Str("DDEEFF")) @@ ("uptime" :> Num(12345)) @@
         ("temperature" :> Num(25)) @@
         ("relays" :> Arr(<<RelayOn>>)) @@ ("meters" :> Arr(<<MeterA>>)))

\* a two-channel legacy device
Shelly25Body ==
  Object(("wifi_sta.connected" :> Bool(TRUE)) @@ ("mac" :> Str("112233")) @@
         ("relays" :> Arr(<<RelayTripped, RelayOn>>)) @@
         ("meters" :> Arr(<<MeterB, MeterA>>)))

\* a legacy answer with empty relay and meter lists and wifi down
BareLegacyBody ==
  Object(("wifi_sta.connected" :> Bool(FALSE)) @@ ("mac" :> Str("445566")) @@
         ("relays" :> Arr(<<>>)) @@ ("meters" :> Arr(<<>>)))

\* a 200 answer to the RPC request that carries an energy-meter total and a
\* meters list (StatusResponse declares both)
MixedBody ==
  Object(("sys.mac" :> Str("778899")) @@
         ("em:0.total_act_power" :> Num(100)) @@ ("meters" :> Arr(<<MeterA>>)))

\* a 200 answer to the RPC request with a meters list only, whose meter
\* reads a negative power (Meter.Power is a float64)
MeterExport == [Power |-> 0 - 50, Total |-> 0, IsValid |-> TRUE]
ExportingMeterBody ==
  Object(("mac" :> Str("990011")) @@ ("meters" :> Arr(<<MeterExport>>)))

\* valid JSON that neither schema accepts (mac is a number)
BadTypesBody == Object(("mac" :> Num(5)))

Bodies == {Garbage, EmptyBody, Pro3EMBody, Shelly1PMBody, Shelly25Body,
           BareLegacyBody, BadTypesBody}

StatusNotFound == 404
StatusInternalServerError == 500

\* what a device may do with one request, timing aside
Exchanges ==
  {TransportError("refused")}
    \cup {Response(StatusOK, b) : b \in Bodies}
    \cup {Response(s, Garbage) : s \in {StatusNotFound, StatusInternalServerError}}

\* ------------------------------------------------------------------------
\* One GetStatus call step by step, with its clock
\* ------------------------------------------------------------------------

MaxDelay == 3
MaxDeadline == 3
MaxScrapeTimeout == 2

Min(a, b) == IF a <= b THEN a ELSE b

\* the instant at which an attempt started at start is cut off, were the
\* context deadline ignored
AttemptLimitClientOnly(ctxDeadline, start, timeout) == start + timeout

\* the instant at which an attempt started at start is cut off: the context
\* deadline or the http.Client Timeout counted from the attempt's start
AttemptLimit(ctxDeadline, start, timeout) == Min(ctxDeadline, start + timeout)

\* What Do and the body read give for an exchange o whose headers take dh
\* and whose body takes db, started at start and cut off at limit.
Timed(o, dh, db, start, limit) ==
  IF start + dh >= limit THEN [o |-> TransportError("timeout"), at |-> limit]
  ELSE IF o.err # "none" \/ o.status # StatusOK THEN [o |-> o, at |-> start + dh]
  ELSE IF start + dh + db >= limit
       THEN [o |-> Response(StatusOK, Truncated), at |-> limit]
       ELSE [o |-> o, at |-> start + dh + db]

NoReturn == [kind |-> "none", status |-> NoStatus, err |-> NoError]

\* ------------------------------------------------------------------------
\* Collector (metrics.Collector): records sent on the metrics channel
\* ------------------------------------------------------------------------

\* prometheus.MustNewConstMetric(desc, _, value, device, labels...)
Metric(name, device, value, labels) ==
  [metric |-> name, device |-> device, value |-> value, labels |-> labels]

BoolValue(b) == IF b THEN 1 ELSE 0

\* Config.GetDeviceByURL: the first metadata entry with that URL, or nil
NoDevice == [nil |-> TRUE]
RECURSIVE DeviceScan(_, _, _)
DeviceScan(devices, i, url) ==
  IF i > Len(devices) THEN NoDevice
  ELSE IF devices[i].URL = url THEN devices[i]
       ELSE DeviceScan(devices, i + 1, url)
GetDeviceByURL(c, url) == DeviceScan(c.Devices, 1, url)

\* a slip: a URL already in the list is not added again
RECURSIVE WithoutRepeats(_)
WithoutRepeats(list) ==
  IF Len(list) = 0 THEN <<>>
  ELSE LET front == WithoutRepeats(SubSeq(list, 1, Len(list) - 1))
           last == list[Len(list)]
       IN IF \E i \in 1..Len(front) : front[i] = last THEN front
          ELSE Append(front, last)
GetAllDeviceURLsOnce(c) ==
  WithoutRepeats(c.ShellyDevices \o [i \in 1..Len(c.Devices) |-> c.Devices[i].URL])

\* Config.GetAllDeviceURLs
GetAllDeviceURLs(c) == c.ShellyDevices \o [i \in 1..Len(c.Devices) |-> c.Devices[i].URL]

\* a slip: the meters of the snapshot are not looked at
CurrentPowerTotalOnly(status) ==
  IF status.EM.TotalActPower > 0 THEN status.EM.TotalActPower ELSE 0

\* "Get current power consumption (in watts)"
CurrentPower(status) ==
  IF status.EM.TotalActPower > 0 THEN status.EM.TotalActPower
  ELSE IF Len(status.Meters) > 0 THEN status.Meters[1].Power
       ELSE 0

\* the relay loop of collectDeviceMetrics: state and overpower per relay,
\* labelled relay_<index from 0>
RelayRecords(device, relays) ==
  [j \in 1..(2 * Len(relays)) |->
     LET i == (j + 1) \div 2 IN
     IF j % 2 = 1
     THEN Metric("shelly_relay_state", device, BoolValue(relays[i].IsOn), <<"relay", i - 1>>)
     ELSE Metric("shelly_relay_overpower", device, BoolValue(relays[i].Overpower), <<"relay", i - 1>>)]

HoursPerDayCost == 24

\* a slip: the cost is taken on the larger of the total and the meter power
collectCostMetricsMaxPower(c, device, status, nowMinute) ==
  LET deviceInfo == GetDeviceByURL(c, device)
      categoryRecord ==
        IF deviceInfo # NoDevice
        THEN <<Metric("shelly_device_category", device, 1,
                      <<deviceInfo.Name, deviceInfo.Category, deviceInfo.Description>>)>>
        ELSE <<>>
      meterPower == IF Len(status.Meters) > 0 THEN status.Meters[1].Power ELSE 0
      currentPower == IF status.EM.TotalActPower >= meterPower
                      THEN status.EM.TotalActPower ELSE meterPower
      costPerHour == currentPower * GetCurrentRate(c.CostCalculation, nowMinute)
      category == IF deviceInfo # NoDevice THEN deviceInfo.Category ELSE "unknown"
  IN IF ~c.CostCalculation.Enabled THEN categoryRecord
     ELSE categoryRecord \o
          <<Metric("shelly_cost_per_hour_eur", device, costPerHour, <<category>>),
            Metric("shelly_daily_cost_eur", device, costPerHour * HoursPerDayCost, <<category>>)>>

\* a slip: the cost records are sent whether or not cost is enabled (a
\* disabled configuration resolves to the rate 0)
collectCostMetricsAlways(c, device, status, nowMinute) ==
  LET deviceInfo == GetDeviceByURL(c, device)
      categoryRecord ==
        IF deviceInfo # NoDevice
        THEN <<Metric("shelly_device_category", device, 1,
                      <<deviceInfo.Name, deviceInfo.Category, deviceInfo.Description>>)>>
        ELSE <<>>
      costPerHour == CurrentPower(status) * GetCurrentRate(c.CostCalculation, nowMinute)
      category == IF deviceInfo # NoDevice THEN deviceInfo.Category ELSE "unknown"
  IN categoryRecord \o
     <<Metric("shelly_cost_per_hour_eur", device, costPerHour, <<category>>),
       Metric("shelly_daily_cost_eur", device, costPerHour * HoursPerDayCost, <<category>>)>>

\* collectCostMetrics; cost values are power (W) times rate (thousandths per
\* kWh), that is millionths of a currency unit per hour
collectCostMetrics(c, device, status, nowMinute) ==
  LET deviceInfo == GetDeviceByURL(c, device)
      categoryRecord ==
        IF deviceInfo # NoDevice
        THEN <<Metric("shelly_device_category", device, 1,
                      <<deviceInfo.Name, deviceInfo.Category, deviceInfo.Description>>)>>
        ELSE <<>>
      costPerHour == CurrentPower(status) * GetCurrentRate(c.CostCalculation, nowMinute)
      category == IF deviceInfo # NoDevice THEN deviceInfo.Category ELSE "unknown"
  IN IF ~c.CostCalculation.Enabled THEN categoryRecord
     ELSE categoryRecord \o
          <<Metric("shelly_cost_per_hour_eur", device, costPerHour, <<category>>),
            Metric("shelly_daily_cost_eur", device, costPerHour * HoursPerDayCost, <<category>>)>>

\* the records of collectDeviceMetrics after a successful GetStatus
UpRecords(c, device, status, nowMinute) ==
  <<Metric("shelly_device_up", device, 1, <<>>),
    Metric("shelly_device_info", device, 1,
           <<status.Sys.Mac, status.Sys.Mac, status.Sys.AvailableVersion>>),
    Metric("shelly_wifi_connected", device, BoolValue(status.Wifi.Status = "got ip"),
           <<status.Wifi.SSID, status.Wifi.StaIP>>),
    Metric("shelly_wifi_rssi_dbm", device, status.Wifi.RSSI, <<>>)>>
  \o RelayRecords(device, status.Relays) \o
  <<Metric("shelly_power_watts", device, status.EM.AActPower, <<"phase_a">>),
    Metric("shelly_power_watts", device, status.EM.BActPower, <<"phase_b">>),
    Metric("shelly_power_watts", device, status.EM.CActPower, <<"phase_c">>),
    Metric("shelly_power_watts", device, status.EM.TotalActPower, <<"total">>),
    Metric("shelly_energy_total_watthours", device, status.EMData.TotalAct, <<"total">>),
    Metric("shelly_temperature_celsius", device, status.Temperature.TC, <<>>),
    Metric("shelly_overtemperature", device, 0, <<>>),
    Metric("shelly_uptime_seconds", device, status.Sys.Uptime, <<>>),
    Metric("shelly_ram_free_bytes", device, status.Sys.RAMFree, <<>>),
    Metric("shelly_ram_size_bytes", device, status.Sys.RAMSize, <<>>),
    Metric("shelly_filesystem_free_bytes", device, status.Sys.FSFree, <<>>),
    Metric("shelly_filesystem_size_bytes", device, status.Sys.FSSize, <<>>),
    Metric("shelly_cloud_connected", device, BoolValue(status.Cloud.Connected), <<>>),
    Metric("shelly_mqtt_connected", device, BoolValue(status.MQTT.Connected), <<>>),
    Metric("shelly_update_available", device,
           BoolValue(status.Sys.AvailableVersion # ""), <<>>)>>
  \o collectCostMetrics(c, device, status, nowMinute)

\* "Report device as down"
DownRecords(device) == <<Metric("shelly_device_up", device, 0, <<>>)>>

\* a slip: a failed device still gets its category record
DeviceRecordsCategoryOnFailure(c, device, r, nowMinute) ==
  IF r.err # NoError
  THEN DownRecords(device) \o
       (IF GetDeviceByURL(c, device) # NoDevice
        THEN <<Metric("shelly_device_category", device, 1, <<"", "", "">>)>> ELSE <<>>)
  ELSE UpRecords(c, device, r.status, nowMinute)

\* a slip: nothing is reported for a failed device
DeviceRecordsSilentFailure(c, device, r, nowMinute) ==
  IF r.err # NoError THEN <<>>
  ELSE UpRecords(c, device, r.status, nowMinute)

\* what collectDeviceMetrics sends for the GetStatus result r
DeviceRecords(c, device, r, nowMinute) ==
  IF r.err # NoError THEN DownRecords(device)
  ELSE UpRecords(c, device, r.status, nowMinute)

\* a slip: the division is not guarded
ShareUnguarded(heatingPower, total) == [num |-> 100 * heatingPower, den |-> total]

\* the heating share as the fraction num/den of 100 * heating / total
Share(heatingPower, total) ==
  IF total > 0 THEN [num |-> 100 * heatingPower, den |-> total]
  ELSE [num |-> 0, den |-> 1]

\* categoryPower[category] of a Go map: 0 for a missing key
PowerOf(categoryPower, category) ==
  IF category \in DOMAIN categoryPower THEN categoryPower[category] ELSE 0

\* a slip: the record is sent for every client, tagged or not
RECURSIVE HeatingRecordsUntagged(_, _, _, _, _)
HeatingRecordsUntagged(c, clientURLs, i, categoryPower, total) ==
  IF i > Len(clientURLs) THEN <<>>
  ELSE <<Metric("shelly_heating_percentage", clientURLs[i],
                Share(PowerOf(categoryPower, "heating"), total), <<>>)>>
       \o HeatingRecordsUntagged(c, clientURLs, i + 1, categoryPower, total)

\* the second loop of collectHeatingPercentage: one record per client whose
\* URL has metadata
RECURSIVE HeatingRecords(_, _, _, _, _)
HeatingRecords(c, clientURLs, i, categoryPower, total) ==
  IF i > Len(clientURLs) THEN <<>>
  ELSE (IF GetDeviceByURL(c, clientURLs[i]) = NoDevice THEN <<>>
        ELSE <<Metric("shelly_heating_percentage", clientURLs[i],
                      Share(PowerOf(categoryPower, "heating"), total), <<>>)>>)
       \o HeatingRecords(c, clientURLs, i + 1, categoryPower, total)

\* ------------------------------------------------------------------------
\* Configurations the collector is exercised with
\* ------------------------------------------------------------------------

U1 == "http://192.168.1.100"
U2 == "http://192.168.1.101"
U3 == "http://192.168.1.102"

HeatPump == [URL |-> U2, Name |-> "heat_pump", Category |-> "heating",
             Description |-> "Heat pump"]
Lights == [URL |-> U3, Name |-> "lights", Category |-> "general",
           Description |-> ""]

DeviceLists ==
  {[ShellyDevices |-> <<U1>>, Devices |-> <<HeatPump>>],
   [ShellyDevices |-> <<>>, Devices |-> <<HeatPump, Lights>>],
   [ShellyDevices |-> <<U1, U2>>, Devices |-> <<>>]}

CollectorCostConfigs == {Disabled, NoRules, DocSchedule}

CollectorConfigs ==
  {[ShellyDevices |-> d.ShellyDevices, Devices |-> d.Devices, CostCalculation |-> cc] :
     d \in DeviceLists, cc \in CollectorCostConfigs}

\* wall-clock minutes sampled during a cycle: 10:00 and 23:30
ClockSamples == {10 * MinutesPerHour, 23 * MinutesPerHour + 30}

\* what a device may do with a request of a cycle other than answer 200
CycleFailures ==
  {TransportError("refused"), TransportError("timeout"),
   Response(StatusInternalServerError, Garbage)}

\* 200 bodies of the RPC request: {}, a Pro 3EM, a snapshot with an
\* energy-meter total and a meter, one with a meter only, and a body of the
\* legacy schema (which the RPC decode rejects)
RpcCycleBodies == {EmptyBody, Pro3EMBody, MixedBody, ExportingMeterBody,
                   Shelly1PMBody}

\* 200 bodies of the legacy request
LegacyCycleBodies == {Shelly1PMBody, BareLegacyBody}

RpcCycleExchanges == CycleFailures \cup {Response(StatusOK, b) : b \in RpcCycleBodies}
LegacyCycleExchanges ==
  {TransportError("refused"), Response(StatusInternalServerError, Garbage)}
    \cup {Response(StatusOK, b) : b \in LegacyCycleBodies}

\* the exchanges of one GetStatus call of a cycle; the legacy exchange only
\* exists when the RPC attempt hands over to getStatusLegacy
Acquisitions ==
  {<<rpc, legacy>> : rpc \in RpcCycleExchanges, legacy \in LegacyCycleExchanges}

Relevant(a) ==
  RpcAttempt(TRUE, a[1]).kind = "legacy" \/ a[2] = TransportError("refused")

\* the exchanges of a GetStatus call of the aggregation sweep: as above, with
\* one kind of transport error and one answering legacy device
HeatingAcquisitions ==
  {a \in Acquisitions :
     /\ Relevant(a)
     /\ a[1] # TransportError("timeout")
     /\ a[2] \in {TransportError("refused"), Response(StatusOK, Shelly1PMBody)}}

\* ------------------------------------------------------------------------
\* Configuration (config.Config) and its validation (Config.Validate).  The
\* fields Validate does not look at (log level, CA file, skip-verify switch)
\* are left out.  Durations are whole seconds.  An entry of the errors slice
\* is its text and the index the text is formatted with.
\* ------------------------------------------------------------------------

\* the loop over c.Devices
RECURSIVE DeviceErrors(_, _)
DeviceErrors(devices, i) ==
  IF i > Len(devices) THEN <<>>
  ELSE (IF devices[i].URL = ""
        THEN <<<<"devices[%d].url cannot be empty", i - 1>>>> ELSE <<>>)
       \o (IF devices[i].Name = ""
           THEN <<<<"devices[%d].name cannot be empty", i - 1>>>> ELSE <<>>)
       \o (IF devices[i].Category = ""
           THEN <<<<"devices[%d].category cannot be empty", i - 1>>>> ELSE <<>>)
       \o DeviceErrors(devices, i + 1)

\* a slip: a rate of zero passes
RECURSIVE RateErrorsNegativeOnly(_, _)
RateErrorsNegativeOnly(rates, i) ==
  IF i > Len(rates) THEN <<>>
  ELSE (IF rates[i].Time = <<>>
        THEN <<<<"cost_calculation.rates[%d].time cannot be empty", i - 1>>>>
        ELSE <<>>)
       \o (IF rates[i].Rate < 0
           THEN <<<<"cost_calculation.rates[%d].rate must be positive", i - 1>>>>
           ELSE <<>>)
       \o RateErrorsNegativeOnly(rates, i + 1)

\* the loop over c.CostCalculation.Rates; the empty time text is <<>>
RECURSIVE RateErrors(_, _)
RateErrors(rates, i) ==
  IF i > Len(rates) THEN <<>>
  ELSE (IF rates[i].Time = <<>>
        THEN <<<<"cost_calculation.rates[%d].time cannot be empty", i - 1>>>>
        ELSE <<>>)
       \o (IF rates[i].Rate <= 0
           THEN <<<<"cost_calculation.rates[%d].rate must be positive", i - 1>>>>
           ELSE <<>>)
       \o RateErrors(rates, i + 1)

\* Validate: the errors slice it has built when it returns; it returns nil
\* when the slice is empty
Validate(c) ==
  LET errors ==
        (IF c.ListenAddress = ""
         THEN <<<<"listen_address cannot be empty", 0>>>> ELSE <<>>)
        \o (IF c.MetricsPath = ""
            THEN <<<<"metrics_path cannot be empty", 0>>>> ELSE <<>>)
        \o (IF Len(c.ShellyDevices) = 0 /\ Len(c.Devices) = 0
            THEN <<<<"at least one shelly device must be configured", 0>>>>
            ELSE <<>>)
        \o (IF c.ScrapeInterval <= 0
            THEN <<<<"scrape_interval must be positive", 0>>>> ELSE <<>>)
        \o (IF c.ScrapeTimeout <= 0
            THEN <<<<"scrape_timeout must be positive", 0>>>> ELSE <<>>)
        \o (IF c.ScrapeTimeout >= c.ScrapeInterval
            THEN <<<<"scrape_timeout must be less than scrape_interval", 0>>>>
            ELSE <<>>)
        \o DeviceErrors(c.Devices, 1)
        \o (IF c.CostCalculation.Enabled
            THEN (IF c.CostCalculation.DefaultRate <= 0
                  THEN <<<<"cost_calculation.default_rate must be positive", 0>>>>
                  ELSE <<>>)
                 \o RateErrors(c.CostCalculation.Rates, 1)
            ELSE <<>>)
        \o (IF c.TLS.Enabled
            THEN (IF c.TLS.CertFile # "" /\ c.TLS.KeyFile = ""
                  THEN <<<<"tls.key_file is required when tls.cert_file is set", 0>>>>
                  ELSE <<>>)
                 \o (IF c.TLS.KeyFile # "" /\ c.TLS.CertFile = ""
                     THEN <<<<"tls.cert_file is required when tls.key_file is set", 0>>>>
                     ELSE <<>>)
            ELSE <<>>)
  IN [returned |-> TRUE, errors |-> errors]

\* ------------------------------------------------------------------------
\* Configurations validation is exercised with
\* ------------------------------------------------------------------------

U4 == "http://192.168.1.103"

Boiler == [URL |-> U4, Name |-> "boiler", Category |-> "heating",
           Description |-> "Boiler"]

\* Every combination of: a listen address and a metrics path, empty or not;
\* bare URLs (none, two, one twice); metadata devices (none, one, two in
\* either order, one without URL, name or category); interval and timeout of
\* -10, 0, 10 or 30 seconds; cost switched off with sound and with unsound
\* fields, and switched on with no rule, sound rules, a zero default rate, a
\* rule without time, a rule with a zero rate, and the "invalid-format"
\* rule; TLS off, and on with each combination of certificate and key.
Configs ==
  LET noURL == [HeatPump EXCEPT !.URL = ""]
      noName == [HeatPump EXCEPT !.Name = ""]
      noCategory == [HeatPump EXCEPT !.Category = ""]
      durations == {0 - 10, 0, 10, 30}
      costSettings ==
        {Disabled,
         [Enabled |-> FALSE, DefaultRate |-> 0, Rates |-> <<[Time |-> <<>>, Rate |-> 0]>>],
         NoRules,
         OvernightSchedule,
         [NoRules EXCEPT !.DefaultRate = 0],
         [NoRules EXCEPT !.Rates = <<[Time |-> <<>>, Rate |-> RuleRate]>>],
         [NoRules EXCEPT !.Rates = <<[Time |-> Range(T0600, T2200), Rate |-> 0]>>],
         MalformedOnly(InvalidFormat)}
      tlsSettings ==
        {[Enabled |-> FALSE, CertFile |-> "cert.pem", KeyFile |-> ""],
         [Enabled |-> TRUE, CertFile |-> "", KeyFile |-> ""],
         [Enabled |-> TRUE, CertFile |-> "cert.pem", KeyFile |-> ""],
         [Enabled |-> TRUE, CertFile |-> "", KeyFile |-> "key.pem"],
         [Enabled |-> TRUE, CertFile |-> "cert.pem", KeyFile |-> "key.pem"]}
  IN [ListenAddress : {"", ":8080"}, MetricsPath : {"", "/metrics"},
      ShellyDevices : {<<>>, <<U1, U2>>, <<U2, U2>>},
      Devices : {<<>>, <<HeatPump>>, <<Lights, Boiler>>, <<Boiler, Lights>>,
                 <<HeatPump, noURL>>, <<noName>>, <<noCategory>>},
      ScrapeInterval : durations, ScrapeTimeout : durations,
      CostCalculation : costSettings, TLS : tlsSettings]

\* ------------------------------------------------------------------------
\* HTTP server (server.Server): the Start call, the goroutine that listens,
\* a request being handled, and the context Start was given.  Time is counted
\* in units of five seconds.
\* ------------------------------------------------------------------------

\* context.WithTimeout(context.Background(), 30*time.Second)
ShutdownTimeout == 6

\* the longest a handler runs, in the same units
MaxHandlerTime == 8

\* a Server as New returns it, with a context that is not cancelled
NewServer ==
  [pc |-> "new", cancelled |-> FALSE, listener |-> "none", inflight |-> 0,
   elapsed |-> 0, closeFailed |-> FALSE, err |-> "none"]

NoPower == [k \in {} |-> 0]

VARIABLES costCfg, now, rate,
          pc, requests, responses, ret, clock, attemptStart, deadline,
          scrapeTimeout, urlOk,
          cfg, clients, cpc, idx, emitted, acquired, swept, categoryPower,
          totalPower,
          calls, accum, readers,
          conf, verr, urls, server

rateVars == <<costCfg, now, rate>>
clientVars == <<pc, requests, responses, ret, clock, attemptStart, deadline,
                scrapeTimeout, urlOk>>
collectorVars == <<cfg, clients, cpc, idx, emitted, acquired, swept,
                   categoryPower, totalPower>>
\* overlapping Collect calls: their locals and the read lock of the collector
scrapeVars == <<calls, accum, readers>>
\* the loaded configuration, what its validation and its URL list gave, and
\* the HTTP server
startupVars == <<conf, verr, urls, server>>
vars == <<costCfg, now, rate,
          pc, requests, responses, ret, clock, attemptStart, deadline,
          scrapeTimeout, urlOk,
          cfg, clients, cpc, idx, emitted, acquired, swept, categoryPower,
          totalPower,
          calls, accum, readers,
          conf, verr, urls, server>>

\* the collector between cycles
CollectorIdle ==
  /\ cpc = "idle"
  /\ idx = 0
  /\ emitted = <<>>
  /\ acquired = <<>>
  /\ swept = <<>>
  /\ categoryPower = NoPower
  /\ totalPower = 0

\* no Collect call besides the one of the collector variables
NoScrapes ==
  /\ calls = <<>>
  /\ accum = <<>>
  /\ readers = 0

\* the process before its configuration is validated and its server started
NoStartup ==
  /\ conf = [ListenAddress |-> ":8080", MetricsPath |-> "/metrics",
             ShellyDevices |-> <<U1>>, Devices |-> <<>>,
             ScrapeInterval |-> 30, ScrapeTimeout |-> 10,
             CostCalculation |-> SwitchedOff(NoRules),
             TLS |-> [Enabled |-> FALSE, CertFile |-> "", KeyFile |-> ""]]
  /\ verr = [returned |-> FALSE, errors |-> <<>>]
  /\ urls = [returned |-> FALSE, list |-> <<>>]
  /\ server = NewServer

\* no collector (specifications about the other components)
NoCollector ==
  /\ cfg = [ShellyDevices |-> <<>>, Devices |-> <<>>, CostCalculation |-> Disabled]
  /\ clients = <<>>
  /\ CollectorIdle
  /\ NoScrapes

\* the rate resolver at rest (specifications about the other components)
RateIdle ==
  /\ costCfg = NoRules
  /\ now = 0
  /\ rate = NoRate

\* the client at rest
ClientIdle ==
  /\ pc = "idle"
  /\ requests = <<>>
  /\ responses = <<>>
  /\ ret = NoReturn
  /\ clock = 0
  /\ attemptStart = 0
  /\ deadline = 0

InitRate ==
  /\ costCfg \in CostConfigs
  /\ now \in 0..(MinutesPerDay - 1)
  /\ rate = NoRate
  /\ ClientIdle
  /\ scrapeTimeout = 1
  /\ urlOk = TRUE
  /\ NoCollector
  /\ NoStartup

\* one call of GetCurrentRate at the wall-clock minute now
ResolveRate ==
  /\ rate = NoRate
  /\ rate' = GetCurrentRate(costCfg, now)
  /\ UNCHANGED <<costCfg, now>>
  /\ UNCHANGED clientVars
  /\ UNCHANGED collectorVars
  /\ UNCHANGED <<scrapeVars, startupVars>>

\* the wall clock moves to the next minute of the day
Tick ==
  /\ now' = (now + 1) % MinutesPerDay
  /\ rate' = NoRate
  /\ UNCHANGED costCfg
  /\ UNCHANGED clientVars
  /\ UNCHANGED collectorVars
  /\ UNCHANGED <<scrapeVars, startupVars>>

NextRate == ResolveRate \/ Tick

SpecRate == InitRate /\ [][NextRate]_vars

\* client.New: the http.Client Timeout is cfg.ScrapeTimeout
InitClient ==
  /\ RateIdle
  /\ ClientIdle
  /\ scrapeTimeout \in 1..MaxScrapeTimeout
  /\ urlOk \in BOOLEAN
  /\ NoCollector
  /\ NoStartup

\* GetStatus is called with a context that expires at d: the request is
\* built and sent, or building it fails
Call(d) ==
  /\ pc = "idle"
  /\ deadline' = d
  /\ clock' = 0
  /\ attemptStart' = 0
  /\ responses' = <<>>
  /\ IF urlOk
     THEN /\ requests' = <<"rpc">>
          /\ pc' = "rpc"
          /\ ret' = NoReturn
     ELSE /\ requests' = <<>>
          /\ pc' = "failed"
          /\ ret' = RpcAttempt(urlOk, TransportError("refused"))
  /\ UNCHANGED <<scrapeTimeout, urlOk>>
  /\ UNCHANGED rateVars
  /\ UNCHANGED collectorVars
  /\ UNCHANGED <<scrapeVars, startupVars>>

\* httpClient.Do of the RPC request returns and GetStatus runs on: it
\* returns, or getStatusLegacy builds and sends the legacy request
RpcReturns(o, dh, db) ==
  /\ pc = "rpc"
  /\ LET t == Timed(o, dh, db, attemptStart,
                    AttemptLimit(deadline, attemptStart, scrapeTimeout))
         r == RpcAttempt(urlOk, t.o)
     IN /\ clock' = t.at
        /\ responses' = Append(responses, t.o)
        /\ IF r.kind = "legacy"
           THEN /\ requests' = Append(requests, "legacy")
                /\ attemptStart' = t.at
                /\ pc' = "legacy"
                /\ ret' = NoReturn
           ELSE /\ pc' = r.kind
                /\ ret' = r
                /\ UNCHANGED <<requests, attemptStart>>
  /\ UNCHANGED <<deadline, scrapeTimeout, urlOk>>
  /\ UNCHANGED rateVars
  /\ UNCHANGED collectorVars
  /\ UNCHANGED <<scrapeVars, startupVars>>

\* httpClient.Do of the legacy request returns and getStatusLegacy returns
LegacyReturns(o, dh, db) ==
  /\ pc = "legacy"
  /\ LET t == Timed(o, dh, db, attemptStart,
                    AttemptLimit(deadline, attemptStart, scrapeTimeout))
         r == getStatusLegacy(urlOk, t.o)
     IN /\ clock' = t.at
        /\ responses' = Append(responses, t.o)
        /\ pc' = r.kind
        /\ ret' = r
  /\ UNCHANGED <<requests, attemptStart, deadline, scrapeTimeout, urlOk>>
  /\ UNCHANGED rateVars
  /\ UNCHANGED collectorVars
  /\ UNCHANGED <<scrapeVars, startupVars>>

\* the caller has its result; the client is ready for the next call
Finish ==
  /\ pc \in {"done", "failed"}
  /\ pc' = "idle"
  /\ requests' = <<>>
  /\ responses' = <<>>
  /\ ret' = NoReturn
  /\ clock' = 0
  /\ attemptStart' = 0
  /\ deadline' = 0
  /\ UNCHANGED <<scrapeTimeout, urlOk>>
  /\ UNCHANGED rateVars
  /\ UNCHANGED collectorVars
  /\ UNCHANGED <<scrapeVars, startupVars>>

NextClient ==
  \/ \E d \in 1..MaxDeadline : Call(d)
  \/ \E o \in Exchanges, dh \in 0..MaxDelay, db \in 0..MaxDelay : RpcReturns(o, dh, db)
  \/ \E o \in Exchanges, dh \in 0..MaxDelay, db \in 0..MaxDelay : LegacyReturns(o, dh, db)
  \/ Finish

SpecClient == InitClient /\ [][NextClient]_vars

\* ------------------------------------------------------------------------
\* Collection cycles (Collector.Collect)
\* ------------------------------------------------------------------------

\* metrics.NewCollector over the clients of the configured endpoints
Init ==
  /\ costCfg = NoRules
  /\ rate = NoRate
  /\ now \in ClockSamples
  /\ ClientIdle
  /\ scrapeTimeout = 1
  /\ urlOk = TRUE
  /\ cfg \in CollectorConfigs
  /\ clients = GetAllDeviceURLs(cfg)
  /\ CollectorIdle
  /\ NoScrapes
  /\ NoStartup

\* a scrape calls Collect: the channel of this cycle is empty
CollectBegin ==
  /\ cpc \in {"idle", "done"}
  /\ cpc' = "devices"
  /\ idx' = 1
  /\ emitted' = <<>>
  /\ acquired' = <<>>
  /\ swept' = <<>>
  /\ categoryPower' = NoPower
  /\ totalPower' = 0
  /\ UNCHANGED <<cfg, clients>>
  /\ UNCHANGED <<rateVars, clientVars, scrapeVars, startupVars>>

\* a slip: a device that fails takes back what the cycle has sent so far
CollectDeviceMetricsRollback(rpc, legacy) ==
  /\ cpc = "devices"
  /\ idx <= Len(clients)
  /\ LET r == GetStatus(TRUE, rpc, legacy) IN
       /\ acquired' = Append(acquired, r)
       /\ emitted' = (IF r.err # NoError THEN <<>> ELSE emitted)
                        \o DeviceRecords(cfg, clients[idx], r, now)
       /\ idx' = idx + 1
       /\ cpc' = cpc
  /\ UNCHANGED <<cfg, clients, swept, categoryPower, totalPower>>
  /\ UNCHANGED <<rateVars, clientVars, scrapeVars, startupVars>>

\* collectDeviceMetrics for the next client: GetStatus, whose exchanges with
\* the device give rpc and legacy, and the records sent for its result
CollectDeviceMetrics(rpc, legacy) ==
  /\ cpc = "devices"
  /\ idx <= Len(clients)
  /\ LET r == GetStatus(TRUE, rpc, legacy) IN
       /\ acquired' = Append(acquired, r)
       /\ IF r.err = NoError /\ r.status = NoStatus
          THEN \* status.Sys.Mac of a nil status
               /\ cpc' = "panic"
               /\ UNCHANGED <<emitted, idx>>
          ELSE /\ emitted' = emitted \o DeviceRecords(cfg, clients[idx], r, now)
               /\ idx' = idx + 1
               /\ cpc' = cpc
  /\ UNCHANGED <<cfg, clients, swept, categoryPower, totalPower>>
  /\ UNCHANGED <<rateVars, clientVars, scrapeVars, startupVars>>

\* collectHeatingPercentage with cost calculation disabled returns at once,
\* and Collect returns
HeatingDisabled ==
  /\ cpc = "devices"
  /\ idx > Len(clients)
  /\ ~cfg.CostCalculation.Enabled
  /\ cpc' = "done"
  /\ UNCHANGED <<cfg, clients, idx, emitted, acquired, swept, categoryPower,
                 totalPower>>
  /\ UNCHANGED <<rateVars, clientVars, scrapeVars, startupVars>>

\* a slip: the aggregation sweep starts before the last client was visited
HeatingBeginEarly ==
  /\ cpc = "devices"
  /\ idx >= Len(clients)
  /\ cfg.CostCalculation.Enabled
  /\ cpc' = "heating"
  /\ idx' = 1
  /\ swept' = <<>>
  /\ categoryPower' = NoPower
  /\ totalPower' = 0
  /\ UNCHANGED <<cfg, clients, emitted, acquired>>
  /\ UNCHANGED <<rateVars, clientVars, scrapeVars, startupVars>>

\* collectHeatingPercentage starts its own sweep over the clients
HeatingBegin ==
  /\ cpc = "devices"
  /\ idx > Len(clients)
  /\ cfg.CostCalculation.Enabled
  /\ cpc' = "heating"
  /\ idx' = 1
  /\ swept' = <<>>
  /\ categoryPower' = NoPower
  /\ totalPower' = 0
  /\ UNCHANGED <<cfg, clients, emitted, acquired>>
  /\ UNCHANGED <<rateVars, clientVars, scrapeVars, startupVars>>

\* one iteration of the aggregation loop: a second GetStatus of the client
HeatingSweep(rpc, legacy) ==
  /\ cpc = "heating"
  /\ idx <= Len(clients)
  /\ LET r == GetStatus(TRUE, rpc, legacy)
         deviceInfo == GetDeviceByURL(cfg, clients[idx])
         category == IF deviceInfo # NoDevice THEN deviceInfo.Category ELSE "unknown"
     IN /\ swept' = Append(swept, r)
        /\ IF r.err # NoError
           THEN /\ idx' = idx + 1
                /\ UNCHANGED <<cpc, categoryPower, totalPower>>
           ELSE IF r.status = NoStatus
           THEN /\ cpc' = "panic"
                /\ UNCHANGED <<idx, categoryPower, totalPower>>
           ELSE /\ categoryPower' =
                     (category :> (PowerOf(categoryPower, category)
                                     + CurrentPower(r.status)))
                       @@ categoryPower
                /\ totalPower' = totalPower + CurrentPower(r.status)
                /\ idx' = idx + 1
                /\ cpc' = cpc
  /\ UNCHANGED <<cfg, clients, emitted, acquired>>
  /\ UNCHANGED <<rateVars, clientVars, scrapeVars, startupVars>>

\* the emission loop of collectHeatingPercentage, and Collect returns
HeatingEmit ==
  /\ cpc = "heating"
  /\ idx > Len(clients)
  /\ emitted' = emitted \o HeatingRecords(cfg, clients, 1, categoryPower, totalPower)
  /\ cpc' = "done"
  /\ UNCHANGED <<cfg, clients, idx, acquired, swept, categoryPower, totalPower>>
  /\ UNCHANGED <<rateVars, clientVars, scrapeVars, startupVars>>

\* the wall clock read by GetCurrentRate moves on
AdvanceClock ==
  /\ \E m \in ClockSamples : m # now /\ now' = m
  /\ UNCHANGED <<costCfg, rate>>
  /\ UNCHANGED <<clientVars, collectorVars, scrapeVars, startupVars>>

Next ==
  \/ CollectBegin
  \/ \E a \in Acquisitions : Relevant(a) /\ CollectDeviceMetrics(a[1], a[2])
  \/ HeatingDisabled
  \/ HeatingBegin
  \/ \E a \in HeatingAcquisitions : HeatingSweep(a[1], a[2])
  \/ HeatingEmit
  \/ AdvanceClock

Spec == Init /\ [][Next]_vars

\* ------------------------------------------------------------------------
\* Overlapping scrapes: two Collect calls on one Collector.  What a call
\* keeps in local variables and in its own channel is calls[k] and
\* accum[AccumulatorOf(k)]; cfg and clients are the collector's fields,
\* which Collect only reads; readers counts the holders of c.mu.RLock.
\* ------------------------------------------------------------------------

ScrapeIds == {1, 2}

\* the locals of a Collect call that has not started
IdleCall ==
  [cpc |-> "idle", idx |-> 0, emitted |-> <<>>, acquired |-> <<>>,
   swept |-> <<>>, after |-> {}]

\* a slip: the accumulators are fields of the Collector, one set for all calls
SharedAccumulator(k) == 1

\* categoryPower and totalPower are locals of collectHeatingPercentage: each
\* call has its own
AccumulatorOf(k) == k

\* a slip: the accumulators are not set up anew when a sweep starts
SweepStartKept(acc) == acc

\* an empty map and a zero total
NoAccumulated == [categoryPower |-> NoPower, totalPower |-> 0]

\* "categoryPower := make(map[string]float64)" and "totalPower := 0.0"
SweepStart(acc) == NoAccumulated

ScrapeConfigs ==
  {[ShellyDevices |-> <<>>, Devices |-> <<HeatPump, Lights>>, CostCalculation |-> cc] :
     cc \in {NoRules, Disabled}}

\* what the devices do with the requests of overlapping scrapes: refuse the
\* connection, or answer the RPC request as a Pro 3EM
ScrapeAcquisitions ==
  {<<TransportError("refused"), TransportError("refused")>>,
   <<Response(StatusOK, Pro3EMBody), TransportError("refused")>>}

InitScrapes ==
  /\ RateIdle
  /\ ClientIdle
  /\ scrapeTimeout = 1
  /\ urlOk = TRUE
  /\ cfg \in ScrapeConfigs
  /\ clients = GetAllDeviceURLs(cfg)
  /\ CollectorIdle
  /\ calls = [k \in ScrapeIds |-> IdleCall]
  /\ accum = [k \in ScrapeIds |-> NoAccumulated]
  /\ readers = 0
  /\ NoStartup

\* scrape k calls Collect: c.mu.RLock() (no Lock is ever taken, so it does
\* not wait), an empty channel and fresh locals.  after holds the calls that
\* had returned by then.
ScrapeBegin(k) ==
  /\ calls[k].cpc \in {"idle", "done"}
  /\ readers' = readers + 1
  /\ calls' =
       [j \in ScrapeIds |->
          IF j = k
          THEN [IdleCall EXCEPT !.cpc = "devices", !.idx = 1,
                                !.after = {i \in ScrapeIds \ {k} : calls[i].cpc = "done"}]
          ELSE [calls[j] EXCEPT !.after = @ \ {k}]]
  /\ UNCHANGED accum
  /\ UNCHANGED <<rateVars, clientVars, collectorVars, startupVars>>

\* collectDeviceMetrics of scrape k for its next client
ScrapeDevice(k, rpc, legacy) ==
  /\ calls[k].cpc = "devices"
  /\ calls[k].idx <= Len(clients)
  /\ LET r == GetStatus(TRUE, rpc, legacy) IN
       calls' =
         [calls EXCEPT
            ![k].acquired = Append(@, r),
            ![k].emitted = @ \o DeviceRecords(cfg, clients[calls[k].idx], r, now),
            ![k].idx = @ + 1]
  /\ UNCHANGED <<accum, readers>>
  /\ UNCHANGED <<rateVars, clientVars, collectorVars, startupVars>>

\* collectHeatingPercentage of scrape k with cost disabled; Collect returns
\* and the deferred c.mu.RUnlock() runs
ScrapeHeatingDisabled(k) ==
  /\ calls[k].cpc = "devices"
  /\ calls[k].idx > Len(clients)
  /\ ~cfg.CostCalculation.Enabled
  /\ calls' = [calls EXCEPT ![k].cpc = "done"]
  /\ readers' = readers - 1
  /\ UNCHANGED accum
  /\ UNCHANGED <<rateVars, clientVars, collectorVars, startupVars>>

\* collectHeatingPercentage of scrape k sets up its accumulators
ScrapeHeatingBegin(k) ==
  /\ calls[k].cpc = "devices"
  /\ calls[k].idx > Len(clients)
  /\ cfg.CostCalculation.Enabled
  /\ calls' = [calls EXCEPT ![k].cpc = "heating", ![k].idx = 1, ![k].swept = <<>>]
  /\ accum' = [accum EXCEPT ![AccumulatorOf(k)] = SweepStart(@)]
  /\ UNCHANGED readers
  /\ UNCHANGED <<rateVars, clientVars, collectorVars, startupVars>>

\* one iteration of the aggregation loop of scrape k
ScrapeSweep(k, rpc, legacy) ==
  /\ calls[k].cpc = "heating"
  /\ calls[k].idx <= Len(clients)
  /\ LET r == GetStatus(TRUE, rpc, legacy)
         deviceInfo == GetDeviceByURL(cfg, clients[calls[k].idx])
         category == IF deviceInfo # NoDevice THEN deviceInfo.Category ELSE "unknown"
         acc == accum[AccumulatorOf(k)]
     IN /\ calls' = [calls EXCEPT ![k].swept = Append(@, r), ![k].idx = @ + 1]
        /\ IF r.err # NoError
           THEN UNCHANGED accum
           ELSE accum' =
                  [accum EXCEPT ![AccumulatorOf(k)] =
                     [categoryPower |->
                        (category :> (PowerOf(acc.categoryPower, category)
                                        + CurrentPower(r.status)))
                          @@ acc.categoryPower,
                      totalPower |-> acc.totalPower + CurrentPower(r.status)]]
  /\ UNCHANGED readers
  /\ UNCHANGED <<rateVars, clientVars, collectorVars, startupVars>>

\* the emission loop of scrape k; Collect returns and c.mu.RUnlock() runs
ScrapeEmit(k) ==
  /\ calls[k].cpc = "heating"
  /\ calls[k].idx > Len(clients)
  /\ LET acc == accum[AccumulatorOf(k)] IN
       calls' =
         [calls EXCEPT
            ![k].emitted = @ \o HeatingRecords(cfg, clients, 1, acc.categoryPower,
                                               acc.totalPower),
            ![k].cpc = "done"]
  /\ readers' = readers - 1
  /\ UNCHANGED accum
  /\ UNCHANGED <<rateVars, clientVars, collectorVars, startupVars>>

\* the steps of scrape k
ScrapeNext(k) ==
  \/ ScrapeBegin(k)
  \/ \E a \in ScrapeAcquisitions : ScrapeDevice(k, a[1], a[2])
  \/ ScrapeHeatingDisabled(k)
  \/ ScrapeHeatingBegin(k)
  \/ \E a \in ScrapeAcquisitions : ScrapeSweep(k, a[1], a[2])
  \/ ScrapeEmit(k)

NextScrapes == \E k \in ScrapeIds : ScrapeNext(k)

SpecScrapes == InitScrapes /\ [][NextScrapes]_vars

\* each HTTP handler goroutine that runs Collect keeps being scheduled, and
\* every GetStatus returns
LiveSpecScrapes == SpecScrapes /\ \A k \in ScrapeIds : WF_vars(ScrapeNext(k))

\* ------------------------------------------------------------------------
\* Startup: a configuration is validated and its endpoint list is built
\* ------------------------------------------------------------------------

\* a configuration as viper.Unmarshal filled it
InitConfig ==
  /\ RateIdle
  /\ ClientIdle
  /\ scrapeTimeout = 1
  /\ urlOk = TRUE
  /\ NoCollector
  /\ conf \in Configs
  /\ verr = [returned |-> FALSE, errors |-> <<>>]
  /\ urls = [returned |-> FALSE, list |-> <<>>]
  /\ server = NewServer

\* cfg.Validate()
CallValidate ==
  /\ ~verr.returned
  /\ verr' = Validate(conf)
  /\ UNCHANGED <<conf, urls, server>>
  /\ UNCHANGED <<rateVars, clientVars, collectorVars, scrapeVars>>

\* cfg.GetAllDeviceURLs()
CallGetAllDeviceURLs ==
  /\ ~urls.returned
  /\ urls' = [returned |-> TRUE, list |-> GetAllDeviceURLs(conf)]
  /\ UNCHANGED <<conf, verr, server>>
  /\ UNCHANGED <<rateVars, clientVars, collectorVars, scrapeVars>>

NextConfig == CallValidate \/ CallGetAllDeviceURLs

SpecConfig == InitConfig /\ [][NextConfig]_vars

\* ------------------------------------------------------------------------
\* The HTTP server: Server.Start, Server.Stop and what net/http does in
\* between.  server.pc is the position of the Start call ("new" before it,
\* "waiting" at <-ctx.Done(), "shutdown" inside s.server.Shutdown,
\* "returned" after it); server.listener is the goroutine running
\* ListenAndServe; server.inflight is the time the request being handled
\* still needs (0: none); server.elapsed is the time spent in Shutdown;
\* server.err is what Start returned.
\* ------------------------------------------------------------------------

InitServer ==
  /\ RateIdle
  /\ ClientIdle
  /\ scrapeTimeout = 1
  /\ urlOk = TRUE
  /\ NoCollector
  /\ NoStartup

\* Start is called: the goroutine is started and Start waits on ctx.Done().
\* ListenAndServe of a server that was shut down returns ErrServerClosed.
Start ==
  /\ server.pc = "new"
  /\ server' = [server EXCEPT
                  !.pc = "waiting",
                  !.listener = IF @ = "closed" THEN "closed" ELSE "starting"]
  /\ UNCHANGED <<conf, verr, urls>>
  /\ UNCHANGED <<rateVars, clientVars, collectorVars, scrapeVars>>

\* a slip: a listen error makes Start return it
ListenAndServeFatal(ok) ==
  /\ server.listener = "starting"
  /\ server' = IF ok THEN [server EXCEPT !.listener = "serving"]
               ELSE [server EXCEPT !.listener = "failed", !.pc = "returned",
                                   !.err = "listen"]
  /\ UNCHANGED <<conf, verr, urls>>
  /\ UNCHANGED <<rateVars, clientVars, collectorVars, scrapeVars>>

\* s.server.ListenAndServe() in the goroutine: it serves, or fails (the
\* address is in use) and the error is logged
ListenAndServe(ok) ==
  /\ server.listener = "starting"
  /\ server' = [server EXCEPT !.listener = IF ok THEN "serving" ELSE "failed"]
  /\ UNCHANGED <<conf, verr, urls>>
  /\ UNCHANGED <<rateVars, clientVars, collectorVars, scrapeVars>>

\* the context given to Start is cancelled (or its deadline passes)
Cancel ==
  /\ ~server.cancelled
  /\ server' = [server EXCEPT !.cancelled = TRUE]
  /\ UNCHANGED <<conf, verr, urls>>
  /\ UNCHANGED <<rateVars, clientVars, collectorVars, scrapeVars>>

\* a request arrives whose handler will run for d
Serve(d) ==
  /\ server.listener = "serving"
  /\ server.inflight = 0
  /\ server' = [server EXCEPT !.inflight = d]
  /\ UNCHANGED <<conf, verr, urls>>
  /\ UNCHANGED <<rateVars, clientVars, collectorVars, scrapeVars>>

\* time passes while a request is handled; inside Shutdown it counts against
\* the shutdown context
TimePasses ==
  /\ server.inflight > 0
  /\ server.pc = "shutdown" => server.elapsed < ShutdownTimeout
  /\ server' = [server EXCEPT
                  !.inflight = @ - 1,
                  !.elapsed = IF server.pc = "shutdown" THEN @ + 1 ELSE @]
  /\ UNCHANGED <<conf, verr, urls>>
  /\ UNCHANGED <<rateVars, clientVars, collectorVars, scrapeVars>>

\* ctx.Done() is closed: Start goes on and calls s.server.Shutdown, which
\* closes the listener (that may fail) and waits for the request in flight
Shutdown(closeFails) ==
  /\ server.pc = "waiting"
  /\ server.cancelled
  /\ server' = [server EXCEPT
                  !.pc = "shutdown",
                  !.elapsed = 0,
                  !.closeFailed = closeFails /\ server.listener = "serving",
                  !.listener = IF @ \in {"starting", "serving"} THEN "closed" ELSE @]
  /\ UNCHANGED <<conf, verr, urls>>
  /\ UNCHANGED <<rateVars, clientVars, collectorVars, scrapeVars>>

\* Shutdown returns, and Start returns what it returned: the context's error
\* when the shutdown context expired with a request still in flight, else
\* the error of closing the listener, else nil
ShutdownReturns ==
  /\ server.pc = "shutdown"
  /\ server.inflight = 0 \/ server.elapsed >= ShutdownTimeout
  /\ server' = [server EXCEPT
                  !.pc = "returned",
                  !.err = IF server.inflight > 0 THEN "deadline exceeded"
                          ELSE IF server.closeFailed THEN "close" ELSE "nil"]
  /\ UNCHANGED <<conf, verr, urls>>
  /\ UNCHANGED <<rateVars, clientVars, collectorVars, scrapeVars>>

\* Server.Stop, called by another goroutine: the listener is closed
Stop ==
  /\ server.listener \in {"none", "starting", "serving"}
  /\ server' = [server EXCEPT !.listener = "closed"]
  /\ UNCHANGED <<conf, verr, urls>>
  /\ UNCHANGED <<rateVars, clientVars, collectorVars, scrapeVars>>

NextServer ==
  \/ Start
  \/ \E ok \in BOOLEAN : ListenAndServe(ok)
  \/ Cancel
  \/ \E d \in 1..MaxHandlerTime : Serve(d)
  \/ TimePasses
  \/ \E closeFails \in BOOLEAN : Shutdown(closeFails)
  \/ ShutdownReturns
  \/ Stop

SpecServer == InitServer /\ [][NextServer]_vars

\* the goroutine of Start is scheduled and time passes
LiveSpecServer ==
  /\ SpecServer
  /\ WF_vars(\E closeFails \in BOOLEAN : Shutdown(closeFails))
  /\ WF_vars(ShutdownReturns)
  /\ WF_vars(TimePasses)

\* ------------------------------------------------------------------------
\* Properties of the dual-protocol client (SpecClient)
\* ------------------------------------------------------------------------

\* the RPC exchange came back with an HTTP response GetStatus does not accept
RpcRejected ==
  /\ Len(responses) >= 1
  /\ responses[1].err = "none"
  /\ (responses[1].status # StatusOK \/ ~Decodes(responses[1].body, StatusSchema))

\* the legacy exchange came back with 200 and a body of the legacy schema
LegacyAccepted ==
  /\ Len(responses) = 2
  /\ responses[2].err = "none"
  /\ responses[2].status = StatusOK
  /\ Decodes(responses[2].body, LegacySchema)

\* the legacy exchange came back with an HTTP response that is not that
LegacyRejected ==
  /\ Len(responses) = 2
  /\ responses[2].err = "none"
  /\ (responses[2].status # StatusOK \/ ~Decodes(responses[2].body, LegacySchema))

\* C1: when the RPC request returns a non-200 status or an undecodable 200
\* body, the legacy request is issued, and when that returns 200 with a valid
\* body GetStatus succeeds with the snapshot built from the legacy body.
C1_FallbackCorrectness ==
  RpcRejected =>
    /\ requests = <<"rpc", "legacy">>
    /\ LegacyAccepted =>
         /\ pc = "done"
         /\ ret.err = NoError
         /\ ret.status = ConvertLegacy(DecodeLegacyStatusResponse(responses[2].body))

C1_Witness ==
  /\ pc = "done"
  /\ RpcRejected
  /\ responses[1].status = StatusOK
  /\ LegacyAccepted
  /\ responses[2].body = Shelly1PMBody
  /\ ret.status.EM.AActPower = MeterA.Power

\* C4: a legacy answer with a non-200 status or an undecodable body is fatal:
\* GetStatus returns an error carrying the status code or the decode error,
\* no snapshot, and the call has sent its two requests and no more.
C4_LegacyFailureFatal ==
  LegacyRejected =>
    /\ pc = "failed"
    /\ ret.kind = "failed"
    /\ ret.status = NoStatus
    /\ requests = <<"rpc", "legacy">>
    /\ IF responses[2].status # StatusOK
       THEN ret.err.msg = "status" /\ ret.err.code = responses[2].status
       ELSE ret.err.msg = "decode" /\ ret.err.cause = DecodeCause(responses[2].body)

C4_Witness ==
  /\ pc = "failed"
  /\ LegacyRejected
  /\ responses[2].status = StatusInternalServerError
  /\ ret.err.code = StatusInternalServerError

\* C5 (state part): at most one RPC and one legacy request, RPC first, the
\* legacy one only after the RPC request came back rejected, and a finished
\* call is exactly one of Done (snapshot, no error) or Failed (error, no
\* snapshot).
C5_Shape ==
  /\ requests \in {<<>>, <<"rpc">>, <<"rpc", "legacy">>}
  /\ Len(responses) <= Len(requests)
  /\ Len(requests) = 2 => RpcRejected
  /\ pc = "done" => ret.kind = "done" /\ ret.status # NoStatus /\ ret.err = NoError
  /\ pc = "failed" => ret.kind = "failed" /\ ret.status = NoStatus /\ ret.err # NoError
  /\ pc \in {"rpc", "legacy"} => ret = NoReturn /\ Len(responses) = Len(requests) - 1
  /\ pc \in {"idle", "rpc", "legacy", "done", "failed"}

\* a step of a running call sends nothing, or the legacy request after the
\* RPC request
C5_RequestOrder ==
  (pc \in {"rpc", "legacy"}) =>
     \/ requests' = requests
     \/ (requests = <<"rpc">> /\ requests' = Append(requests, "legacy"))

\* C5: within one GetStatus call requests are only ever added, one at a time,
\* in the order RPC then legacy and never repeated, the call's shape holds
\* throughout, and every call that sent its RPC request ends Done or Failed.
C5_OneRpcThenOneLegacy ==
  /\ []C5_Shape
  /\ [][C5_RequestOrder]_vars
  /\ (pc = "rpc") ~> (pc \in {"done", "failed"})

C5_Witness ==
  /\ pc = "done"
  /\ requests = <<"rpc", "legacy">>
  /\ responses[1].status = StatusNotFound

\* C6 as stated: the attempts share the caller's deadline, neither attempt has
\* a budget of its own (a timeout failure means the deadline has expired), and
\* a call in which the deadline expires fails with a timeout error.
C6_SingleSharedDeadline ==
  /\ pc \in {"rpc", "legacy", "done", "failed"} => clock <= deadline
  /\ (pc = "failed" /\ ret.err.cause = "timeout") => clock >= deadline
  /\ (pc \in {"done", "failed"} /\ clock >= deadline) =>
        pc = "failed" /\ ret.err.cause = "timeout"

\* C6 amended: the attempts share the caller's deadline (no attempt runs past
\* it, the legacy attempt starts where the RPC attempt ended, and a call in
\* which the deadline expires fails with a timeout error), and each attempt
\* is also cut off by the client's own Timeout counted from its start.
C6_DeadlineAndPerAttemptTimeout ==
  /\ pc \in {"rpc", "legacy", "done", "failed"} =>
        clock <= deadline /\ clock - attemptStart <= scrapeTimeout
  /\ pc = "legacy" => attemptStart = clock
  /\ (pc = "failed" /\ ret.err.cause = "timeout") =>
        clock >= deadline \/ clock - attemptStart >= scrapeTimeout
  /\ (pc \in {"done", "failed"} /\ clock >= deadline) =>
        pc = "failed" /\ ret.err.cause = "timeout"
  /\ (pc \in {"done", "failed"} /\ ret.err # NoError /\ urlOk
        /\ clock - attemptStart >= scrapeTimeout) => ret.err.cause = "timeout"

C6_Witness ==
  /\ pc = "failed"
  /\ requests = <<"rpc", "legacy">>
  /\ ret.err.cause = "timeout"
  /\ clock < deadline
  /\ clock - attemptStart = scrapeTimeout

\* C7: the snapshot of a valid legacy body has phase-A power = total power =
\* meters[0].power, phase B and C at 0, energy = meters[0].total, the relay
\* list of the body, and wifi status "got ip" exactly when wifi_sta.connected;
\* power and energy are 0 without a meter, the relay list empty without relay.
C7_LegacyMapping ==
  (pc = "done" /\ LegacyAccepted) =>
    LET body == responses[2].body
        meters == Field(body, "meters", <<>>)
        relays == Field(body, "relays", <<>>)
        st == ret.status
    IN /\ st.EM.AActPower = (IF Len(meters) > 0 THEN meters[1].Power ELSE 0)
       /\ st.EM.TotalActPower = st.EM.AActPower
       /\ st.EM.BActPower = 0
       /\ st.EM.CActPower = 0
       /\ st.EMData.TotalAct = (IF Len(meters) > 0 THEN meters[1].Total ELSE 0)
       /\ Len(st.Relays) = Len(relays)
       /\ \A i \in 1..Len(relays) :
            /\ st.Relays[i].IsOn = relays[i].IsOn
            /\ st.Relays[i].Overpower = relays[i].Overpower
       /\ (st.Wifi.Status = "got ip") <=> Field(body, "wifi_sta.connected", FALSE)

C7_Witness ==
  /\ pc = "done"
  /\ LegacyAccepted
  /\ responses[2].body = Shelly25Body
  /\ ret.status.EM.TotalActPower = MeterB.Power
  /\ Len(ret.status.Relays) = 2

\* the clients a collector may hold: a configuration and one of its endpoints
Endpoints ==
  {e \in CollectorConfigs \X {U1, U2, U3} :
     \E i \in 1..Len(GetAllDeviceURLs(e[1])) : GetAllDeviceURLs(e[1])[i] = e[2]}

\* what collectDeviceMetrics of such a client sends for the result of the call
RecordsOfCall(e) == DeviceRecords(e[1], e[2], ret, now)

\* the RPC request failed without an HTTP response
RpcTransportFailure == Len(responses) >= 1 /\ responses[1].err # "none"

\* C27: when the RPC request fails at the transport level (connection error
\* or timeout, no HTTP response), GetStatus returns that error at once, the
\* legacy request is not sent, and a cycle records the device as down.
C27_TransportErrorNoFallback ==
  RpcTransportFailure =>
    /\ pc = "failed"
    /\ requests = <<"rpc">>
    /\ Len(responses) = 1
    /\ ret.kind = "failed"
    /\ ret.status = NoStatus
    /\ ret.err.msg = "execute"
    /\ ret.err.cause = responses[1].err
    /\ \A e \in Endpoints :
         RecordsOfCall(e) = <<Metric("shelly_device_up", e[2], 0, <<>>)>>

C27_Witness ==
  /\ pc = "failed"
  /\ responses = <<TransportError("timeout")>>
  /\ requests = <<"rpc">>
  /\ clock < deadline
  /\ ret.err.cause = "timeout"

\* a JSON object in which no key of the status structure has a value of
\* another type than its field
IsStatusObject(body) ==
  /\ body.valid
  /\ \A k \in DOMAIN body.obj \cap DOMAIN StatusSchema :
       body.obj[k].t = StatusSchema[k]

\* the RPC request came back with 200 and such an object
RpcAnsweredObject ==
  /\ Len(responses) >= 1
  /\ responses[1].err = "none"
  /\ responses[1].status = StatusOK
  /\ IsStatusObject(responses[1].body)

\* the records whose value is 1 for every device that answers
PresenceRecords == {"shelly_device_up", "shelly_device_info", "shelly_device_category"}

\* C29: a 200 answer to the RPC request whose body decodes as a JSON object
\* into the status structure ends GetStatus in Done without a legacy
\* request, also when the object has none of the expected keys; the snapshot
\* of {} has every field at zero, and a cycle reports the device reachable
\* with zero readings.
C29_EmptyObjectIsDone ==
  RpcAnsweredObject =>
    /\ pc = "done"
    /\ requests = <<"rpc">>
    /\ ret.err = NoError
    /\ responses[1].body = Pro3EMBody =>
         /\ ret.status.EM.TotalActPower = 175
         /\ ret.status.Sys.Mac = "AABBCC"
         /\ ret.status.Mac = ""
         /\ ret.status.Wifi.RSSI = 0
         /\ ret.status.Relays = <<>>
         /\ ret.status.Meters = <<>>
    /\ responses[1].body = EmptyBody =>
         /\ ret.status.Sys.Mac = ""
         /\ ret.status.Sys.Uptime = 0
         /\ ret.status.Sys.AvailableVersion = ""
         /\ ret.status.Wifi.Status = ""
         /\ ret.status.Wifi.RSSI = 0
         /\ ~ret.status.Cloud.Connected
         /\ ~ret.status.MQTT.Connected
         /\ ret.status.Temperature.TC = 0
         /\ ret.status.EM = [AActPower |-> 0, BActPower |-> 0, CActPower |-> 0,
                              TotalActPower |-> 0]
         /\ ret.status.EMData.TotalAct = 0
         /\ ret.status.Relays = <<>>
         /\ ret.status.Meters = <<>>
         /\ \A e \in Endpoints :
              LET sent == RecordsOfCall(e) IN
              /\ sent[1] = Metric("shelly_device_up", e[2], 1, <<>>)
              /\ \A n \in 1..Len(sent) :
                   sent[n].value = (IF sent[n].metric \in PresenceRecords THEN 1 ELSE 0)
              /\ \E n \in 1..Len(sent) :
                   sent[n].metric = "shelly_power_watts" /\ sent[n].labels = <<"total">>

C29_Witness ==
  /\ pc = "done"
  /\ responses = <<Response(StatusOK, EmptyBody)>>
  /\ requests = <<"rpc">>
  /\ ret.status = ZeroStatus

\* the three records of a cycle the claim is about
LegacyBlindRecords ==
  {"shelly_cloud_connected", "shelly_mqtt_connected", "shelly_update_available"}

LiveSpecClient == SpecClient /\ WF_vars(NextClient)

\* ------------------------------------------------------------------------
\* Properties of the rate resolver (SpecRate)
\* ------------------------------------------------------------------------

\* C8: with the documented schedule, default 0.15 and cost enabled, the rate
\* is 0.18 at 10:00 and 0.12 at 23:30, and 22:00-24:00 covers every minute
\* from 22:00 to midnight.
C8_DocScheduleRates ==
  (costCfg = DocSchedule /\ rate # NoRate) =>
    /\ now = 10 * MinutesPerHour => rate = DayRate
    /\ now = 23 * MinutesPerHour + 30 => rate = NightRate
    /\ now > 22 * MinutesPerHour => rate = NightRate

\* the single rule of a one-rule schedule, as minutes of the day
RuleStart == ClockMinutes(SubSeq(costCfg.Rates[1].Time, 1, 5))
RuleEnd == ClockMinutes(SubSeq(costCfg.Rates[1].Time, 7, 11))

\* C9: a rule whose end is earlier than its start matches exactly the times
\* with now >= start or now <= end; the overnight schedule gives 0.10 at
\* 02:00 and 0.18 at 12:00.
C9_OvernightRule ==
  /\ (costCfg \in SingleRuleSchedules /\ rate # NoRate /\ RuleEnd < RuleStart) =>
        ((rate = RuleRate) <=> (now >= RuleStart \/ now <= RuleEnd))
  /\ (costCfg = OvernightSchedule /\ rate # NoRate) =>
        /\ now = 2 * MinutesPerHour => rate = OvernightRate
        /\ now = 12 * MinutesPerHour => rate = DayRate

C9_Witness ==
  /\ costCfg = SingleRule(T2200, T0600)
  /\ now = 6 * MinutesPerHour
  /\ rate = RuleRate

\* C10: a rule whose end is at or after its start matches exactly the minutes
\* with start <= now <= end, both boundary minutes included.
C10_NormalRule ==
  (costCfg \in SingleRuleSchedules /\ rate # NoRate /\ RuleEnd >= RuleStart) =>
     ((rate = RuleRate) <=> (RuleStart <= now /\ now <= RuleEnd))

C10_Witness ==
  /\ costCfg = SingleRule(T0600, T2200)
  /\ now = 22 * MinutesPerHour
  /\ rate = RuleRate

\* the times of day a well-formed rule text "HH:MM-HH:MM" covers
RuleCovers(rule, minute) ==
  LET startMinute == ClockMinutes(SubSeq(rule.Time, 1, 5))
      endMinute == ClockMinutes(SubSeq(rule.Time, 7, 11))
  IN IF endMinute >= startMinute
     THEN startMinute <= minute /\ minute <= endMinute
     ELSE minute >= startMinute \/ minute <= endMinute

\* schedules whose rules are all well formed with times of day up to 23:59
OrderedSchedules ==
  SingleRuleSchedules \cup TwoRuleSchedules \cup {OvernightSchedule, NoRules}

\* C11: with cost enabled the resolver returns the rate of the first rule, in
\* configured order, that covers the current time, also when a later rule
\* covers it too; with no rule, or none covering it, the default rate.  In
\* the documented schedule 06:00 belongs to the first of the two rules that
\* share it.
C11_FirstMatchWins ==
  /\ (costCfg \in OrderedSchedules /\ rate # NoRate) =>
        LET covering == {i \in 1..Len(costCfg.Rates) : RuleCovers(costCfg.Rates[i], now)}
        IN IF covering = {} THEN rate = costCfg.DefaultRate
           ELSE \E i \in covering :
                  /\ \A j \in covering : i <= j
                  /\ rate = costCfg.Rates[i].Rate
  /\ (costCfg = DocSchedule /\ rate # NoRate /\ now = 6 * MinutesPerHour) =>
        rate = NightRate

C11_Witness ==
  /\ costCfg = DayThenRule(T0000, T2359)
  /\ now = 12 * MinutesPerHour
  /\ RuleCovers(costCfg.Rates[1], now)
  /\ RuleCovers(costCfg.Rates[2], now)
  /\ rate = DayRate

\* C12: a malformed schedule entry is skipped and the scan goes on: the
\* well-formed 06:00-22:00 rule after it is selected at the minutes it covers,
\* and at every other minute, or with no other rule, the default rate is
\* returned; the malformed entry's own rate never is.
C12_MalformedSkipped ==
  (costCfg \in MalformedSchedules /\ rate # NoRate) =>
     /\ rate # RuleRate
     /\ rate = (IF Len(costCfg.Rates) = 2 /\ RuleCovers(costCfg.Rates[2], now)
                THEN DayRate ELSE costCfg.DefaultRate)

C12_Witness ==
  /\ costCfg = MalformedThenDay(InvalidFormat)
  /\ now = 12 * MinutesPerHour
  /\ rate = DayRate

\* C13: with cost calculation disabled the resolver returns 0, whatever the
\* rule list, the default rate and the time of day.
C13_DisabledIsZero ==
  (~costCfg.Enabled /\ rate # NoRate) => rate = 0

C13_Witness ==
  /\ costCfg = SwitchedOff(SingleRule(T0000, T2359))
  /\ RuleCovers(costCfg.Rates[1], now)
  /\ costCfg.DefaultRate > 0
  /\ rate = 0

\* ------------------------------------------------------------------------
\* Properties of the collection cycle (Spec)
\* ------------------------------------------------------------------------

IsUpRecord(m) == m.metric = "shelly_device_up"

\* the metrics every answering device gets, with the meter label where the
\* metric has one
RequiredRecords ==
  {<<"shelly_device_up", <<>>>>, <<"shelly_wifi_rssi_dbm", <<>>>>,
   <<"shelly_power_watts", <<"phase_a">>>>, <<"shelly_power_watts", <<"phase_b">>>>,
   <<"shelly_power_watts", <<"phase_c">>>>, <<"shelly_power_watts", <<"total">>>>,
   <<"shelly_energy_total_watthours", <<"total">>>>,
   <<"shelly_temperature_celsius", <<>>>>, <<"shelly_overtemperature", <<>>>>,
   <<"shelly_uptime_seconds", <<>>>>, <<"shelly_ram_free_bytes", <<>>>>,
   <<"shelly_ram_size_bytes", <<>>>>, <<"shelly_filesystem_free_bytes", <<>>>>,
   <<"shelly_filesystem_size_bytes", <<>>>>, <<"shelly_cloud_connected", <<>>>>,
   <<"shelly_mqtt_connected", <<>>>>, <<"shelly_update_available", <<>>>>}

LabelledOnly == {"shelly_device_info", "shelly_wifi_connected"}

HasFullRecordSet(device, status) ==
  /\ \A q \in RequiredRecords :
       \E k \in 1..Len(emitted) :
         emitted[k].device = device /\ emitted[k].metric = q[1] /\ emitted[k].labels = q[2]
  /\ \A n \in LabelledOnly :
       \E k \in 1..Len(emitted) : emitted[k].device = device /\ emitted[k].metric = n
  /\ \A i \in 1..Len(status.Relays) :
       \E k \in 1..Len(emitted) :
         /\ emitted[k].device = device
         /\ emitted[k].metric = "shelly_relay_state"
         /\ emitted[k].labels = <<"relay", i - 1>>
  /\ \E k \in 1..Len(emitted) :
       /\ emitted[k].device = device
       /\ emitted[k].metric = "shelly_power_watts"
       /\ emitted[k].labels = <<"total">>
       /\ emitted[k].value = status.EM.TotalActPower

\* the device sweep of the cycle is over
SweepOver == cpc \in {"heating", "done"} \/ (cpc = "devices" /\ idx > Len(clients))

\* C2: whatever devices fail, the cycle visits every client, sends exactly
\* one reachability record per client in client order (0 for a failed one, 1
\* for a successful one), sends the full record set of every successful
\* device, and never panics.
C2_DeviceDownIsolation ==
  /\ cpc # "panic"
  /\ cpc = "devices" => Len(acquired) = idx - 1
  /\ SweepOver =>
       LET ups == SelectSeq(emitted, IsUpRecord) IN
       /\ Len(acquired) = Len(clients)
       /\ Len(ups) = Len(clients)
       /\ \A i \in 1..Len(clients) :
            /\ ups[i].device = clients[i]
            /\ ups[i].value = (IF acquired[i].kind = "done" THEN 1 ELSE 0)
            /\ acquired[i].kind = "done" => HasFullRecordSet(clients[i], acquired[i].status)

C2_Witness ==
  /\ cpc = "done"
  /\ Len(clients) = 2
  /\ acquired[1].kind = "failed"
  /\ acquired[1].err.cause = "timeout"
  /\ acquired[2].kind = "done"
  /\ HasFullRecordSet(clients[2], acquired[2].status)

\* the reachability record with value 0
IsDownRecord(m) == m.metric = "shelly_device_up" /\ m.labels = <<>> /\ m.value = 0

\* C3 as stated: for a device whose acquisition failed, the only record of
\* the cycle for that endpoint is the reachability record with value 0.
C3_OnlyDownRecord ==
  cpc = "done" =>
    \A i \in 1..Len(clients) :
      acquired[i].kind = "failed" =>
        \A k \in 1..Len(emitted) :
          emitted[k].device = clients[i] =>
            IsDownRecord(emitted[k])

\* C3 amended: for a device whose acquisition failed, the cycle sends the
\* reachability record with value 0 and no identity, power, cost or category
\* record; the only other record for that endpoint is the heating share,
\* sent when cost is enabled and the endpoint carries metadata.
C3_DownRecordAndHeatingShare ==
  \A i \in 1..Len(acquired) :
    acquired[i].kind = "failed" =>
      \A k \in 1..Len(emitted) :
        emitted[k].device = clients[i] =>
          \/ IsDownRecord(emitted[k])
          \/ /\ emitted[k].metric = "shelly_heating_percentage"
             /\ cpc = "done"
             /\ cfg.CostCalculation.Enabled
             /\ GetDeviceByURL(cfg, clients[i]) # NoDevice

C3_Witness ==
  /\ cpc = "done"
  /\ \E i \in 1..Len(clients) :
       /\ acquired[i].kind = "failed"
       /\ \E k \in 1..Len(emitted) :
            emitted[k].device = clients[i] /\ emitted[k].metric = "shelly_heating_percentage"
       /\ \E k \in 1..Len(emitted) :
            IsDownRecord(emitted[k])

\* the power of the first meter of a snapshot, 0 without a meter
FirstMeterPower(status) ==
  IF Len(status.Meters) > 0 THEN status.Meters[1].Power ELSE 0

MaxOf(a, b) == IF a >= b THEN a ELSE b

\* max(total active power, first-meter power)
MaxPower(status) == MaxOf(status.EM.TotalActPower, FirstMeterPower(status))

\* the total active power when it is positive, else the first-meter power
PositiveTotalElseMeter(status) ==
  IF status.EM.TotalActPower > 0 THEN status.EM.TotalActPower
  ELSE FirstMeterPower(status)

\* the step of the device pass in which the client at idx answered, with
\* cost enabled
AnsweredWithCost ==
  /\ cpc = "devices"
  /\ idx' = idx + 1
  /\ cfg.CostCalculation.Enabled
  /\ acquired'[idx].kind = "done"

\* the records that step sent
SentByStep == SubSeq(emitted', Len(emitted) + 1, Len(emitted'))

\* among them, exactly one record of that metric for the client, with that
\* value and the label of its category
OneCostRecord(name, value) ==
  LET info == GetDeviceByURL(cfg, clients[idx])
      label == IF info # NoDevice THEN info.Category ELSE "unknown"
      hits == {k \in 1..Len(SentByStep) : SentByStep[k].metric = name}
  IN /\ Cardinality(hits) = 1
     /\ \A k \in hits :
          /\ SentByStep[k].device = clients[idx]
          /\ SentByStep[k].value = value
          /\ SentByStep[k].labels = <<label>>

C14_MaxPowerStep ==
  AnsweredWithCost =>
    LET perHour == MaxPower(acquired'[idx].status)
                     * GetCurrentRate(cfg.CostCalculation, now)
    IN /\ OneCostRecord("shelly_cost_per_hour_eur", perHour)
       /\ OneCostRecord("shelly_daily_cost_eur", HoursPerDayCost * perHour)

\* C14 as stated: with cost enabled, every answering device gets cost-per-hour
\* = max(total active power, first-meter power) * currentRate / 1000 and
\* daily cost = 24 * cost-per-hour, labelled with its category or "unknown".
C14_CostOfMaxPower == [][C14_MaxPowerStep]_vars

C14_CurrentPowerStep ==
  AnsweredWithCost =>
    LET perHour == PositiveTotalElseMeter(acquired'[idx].status)
                     * GetCurrentRate(cfg.CostCalculation, now)
    IN /\ OneCostRecord("shelly_cost_per_hour_eur", perHour)
       /\ OneCostRecord("shelly_daily_cost_eur", HoursPerDayCost * perHour)

\* C14 amended: with cost enabled, every answering device gets cost-per-hour
\* = P * currentRate / 1000 and daily cost = 24 * cost-per-hour, labelled with
\* its category or "unknown", where P is the total active power when that is
\* positive, otherwise the first-meter power (0 without a meter).
C14_CostOfCurrentPower == [][C14_CurrentPowerStep]_vars

C14_Witness ==
  /\ cpc = "done"
  /\ cfg.CostCalculation = NoRules
  /\ GetDeviceByURL(cfg, clients[1]) = NoDevice
  /\ acquired[1] = Success(DecodeStatusResponse(MixedBody))
  /\ \E k \in 1..Len(emitted) :
       /\ emitted[k].metric = "shelly_cost_per_hour_eur"
       /\ emitted[k].device = clients[1]
       /\ emitted[k].value = 100 * DocDefaultRate
       /\ emitted[k].labels = <<"unknown">>

IsHeatingShare(m) == m.metric = "shelly_heating_percentage"

\* some device with metadata answered in the device pass of the cycle
TaggedDeviceAnswered ==
  \E i \in 1..Len(acquired) :
    acquired[i].kind = "done" /\ GetDeviceByURL(cfg, clients[i]) # NoDevice

\* C15: in a cycle with an answering metadata-tagged device and a nonzero
\* grand total, every heating-share value lies in [0,100] and equals
\* 100 * heatingTotal / grandTotal.
C15_HeatingShareBound ==
  (cpc = "done" /\ cfg.CostCalculation.Enabled /\ TaggedDeviceAnswered
     /\ totalPower # 0) =>
    \A k \in 1..Len(emitted) :
      IsHeatingShare(emitted[k]) =>
        LET v == emitted[k].value IN
        /\ v.den > 0
        /\ 0 <= v.num
        /\ v.num <= 100 * v.den
        /\ v.num * totalPower = 100 * PowerOf(categoryPower, "heating") * v.den

\* C16: when the grand total of a cycle is 0 (the answering devices report
\* no power, or no device answers), every heating-share record of the cycle
\* has value 0; no share is a division by zero and the cycle does not panic.
C16_ZeroTotalZeroShare ==
  /\ cpc # "panic"
  /\ \A k \in 1..Len(emitted) :
       IsHeatingShare(emitted[k]) =>
         /\ emitted[k].value.den # 0
         /\ totalPower = 0 => emitted[k].value.num = 0

C16_Witness ==
  /\ cpc = "done"
  /\ totalPower = 0
  /\ Len(swept) = 2
  /\ swept[1].kind = "done"
  /\ swept[2].kind = "failed"
  /\ \E k \in 1..Len(emitted) :
       IsHeatingShare(emitted[k]) /\ emitted[k].value.num = 0

\* the category a client's power is counted under
CategoryOf(i) ==
  LET info == GetDeviceByURL(cfg, clients[i]) IN
  IF info # NoDevice THEN info.Category ELSE "unknown"

\* the sum of the effective powers of the answers among results that belong
\* to the clients in members
RECURSIVE SumOver(_, _)
SumOver(results, members) ==
  IF members = {} THEN 0
  ELSE LET i == CHOOSE m \in members : TRUE
           own == IF results[i].kind = "done"
                  THEN PositiveTotalElseMeter(results[i].status) ELSE 0
       IN own + SumOver(results, members \ {i})

\* the accumulators hold the sums over those results
TotalsAreOver(results) ==
  /\ totalPower = SumOver(results, 1..Len(results))
  /\ \A category \in {"heating", "general", "unknown"} :
       PowerOf(categoryPower, category)
         = SumOver(results, {i \in 1..Len(results) : CategoryOf(i) = category})

\* C17 as stated: the category totals and the grand total of a cycle are the
\* sums over the devices the cycle reports as reachable, each with its
\* effective power; a device reported as down contributes nothing.
C17_TotalsOverReportedDevices ==
  (cpc = "done" /\ cfg.CostCalculation.Enabled) => TotalsAreOver(acquired)

\* C17 amended: the category totals and the grand total of a cycle are the
\* sums over the devices that answer the second request the aggregation
\* sweep sends them in that cycle, each with the effective power of that
\* answer; a device whose second request fails contributes nothing.
C17_TotalsOverSweptDevices ==
  cpc \in {"heating", "done"} => TotalsAreOver(swept)

C17_Witness ==
  /\ cpc = "done"
  /\ Len(swept) = 2
  /\ acquired[1].kind = "failed"
  /\ swept[1].kind = "done"
  /\ swept[2].kind = "failed"
  /\ totalPower = Pro3EMBody.obj["em:0.total_act_power"].v
  /\ PowerOf(categoryPower, CategoryOf(1)) = totalPower

CostMetricNames ==
  {"shelly_cost_per_hour_eur", "shelly_daily_cost_eur", "shelly_heating_percentage"}

\* C18: with cost calculation disabled no cycle sends a cost-per-hour, a
\* daily-cost or a heating-share record, whatever the devices answer.
C18_DisabledNoCostRecords ==
  ~cfg.CostCalculation.Enabled =>
     /\ \A k \in 1..Len(emitted) : emitted[k].metric \notin CostMetricNames
     /\ swept = <<>>
     /\ cpc # "heating"

C18_Witness ==
  /\ cpc = "done"
  /\ ~cfg.CostCalculation.Enabled
  /\ Len(cfg.CostCalculation.Rates) > 0
  /\ acquired[1].kind = "done"
  /\ acquired[1].status.EM.TotalActPower > 0
  /\ \E k \in 1..Len(emitted) :
       emitted[k].device = clients[1] /\ emitted[k].metric = "shelly_device_category"

\* the place of a record in the order of a cycle: the per-device records of
\* the clients in client-list order, then the heating shares in that order
EmissionRank(m) ==
  LET i == CHOOSE n \in 1..Len(clients) : clients[n] = m.device IN
  IF IsHeatingShare(m) THEN Len(clients) + i ELSE i

C21_Order ==
  /\ \A k \in 1..Len(emitted) :
       /\ \E n \in 1..Len(clients) : clients[n] = emitted[k].device
       /\ k < Len(emitted) => EmissionRank(emitted[k]) <= EmissionRank(emitted[k + 1])
       /\ IsHeatingShare(emitted[k]) => cpc = "done" /\ Len(acquired) = Len(clients)
  /\ cpc = "devices" =>
       \A k \in 1..Len(emitted) : EmissionRank(emitted[k]) < idx

\* a step of a running cycle only adds records after those already sent
C21_Step ==
  cpc \in {"devices", "heating"} =>
    /\ Len(emitted') >= Len(emitted)
    /\ SubSeq(emitted', 1, Len(emitted)) = emitted

\* C21: within one cycle every record of the i-th client is sent before
\* every per-device record of the (i+1)-th client, what was sent for earlier
\* devices stays sent when a later device fails, and the heating shares are
\* sent only after the per-device records of all clients.
C21_EmissionOrder == []C21_Order /\ [][C21_Step]_vars

C21_Witness ==
  /\ cpc = "done"
  /\ Len(clients) = 2
  /\ acquired[1].kind = "done"
  /\ acquired[2].kind = "failed"
  /\ Len(emitted) > 3
  /\ emitted[1].device = clients[1]
  /\ emitted[1].value = 1
  /\ IsDownRecord(emitted[Len(emitted) - 2])
  /\ emitted[Len(emitted) - 2].device = clients[2]
  /\ IsHeatingShare(emitted[Len(emitted) - 1])
  /\ IsHeatingShare(emitted[Len(emitted)])

\* C26: with cost enabled a cycle calls GetStatus on every client exactly
\* twice, once in the device pass and once in a second sweep that starts only
\* after the device pass has visited all clients, so the two results of one
\* device may differ; with cost disabled every client is queried exactly once.
C26_TwoSweeps ==
  /\ cpc = "devices" => Len(acquired) = idx - 1 /\ swept = <<>>
  /\ cpc = "heating" =>
       /\ cfg.CostCalculation.Enabled
       /\ Len(acquired) = Len(clients)
       /\ Len(swept) = idx - 1
       /\ Len(swept) <= Len(clients)
  /\ cpc = "done" =>
       /\ Len(acquired) = Len(clients)
       /\ Len(swept) = (IF cfg.CostCalculation.Enabled THEN Len(clients) ELSE 0)

C26_Witness ==
  /\ cpc = "done"
  /\ cfg.CostCalculation.Enabled
  /\ Len(swept) = 2
  /\ Len(acquired) = 2
  /\ acquired[1].kind = "done"
  /\ swept[1].kind = "done"
  /\ CurrentPower(acquired[1].status) # CurrentPower(swept[1].status)
  /\ acquired[2].kind = "failed"
  /\ swept[2].kind = "done"

\* the heating-share records of the cycle
HeatingShares == SelectSeq(emitted, IsHeatingShare)

\* C28: with cost enabled a cycle sends exactly one heating-share record for
\* each client whose URL has metadata and none for a client without, and all
\* heating-share records of the cycle carry the same value, whatever the
\* category and the power of the endpoint they are labelled with.
C28_HeatingSharePerTaggedClient ==
  /\ cpc # "done" => HeatingShares = <<>>
  /\ (cpc = "done" /\ cfg.CostCalculation.Enabled) =>
       /\ \A i \in 1..Len(clients) :
            Cardinality({k \in 1..Len(HeatingShares) :
                           HeatingShares[k].device = clients[i]})
              = (IF GetDeviceByURL(cfg, clients[i]) # NoDevice THEN 1 ELSE 0)
       /\ \A k \in 1..Len(HeatingShares) :
            /\ HeatingShares[k].value = HeatingShares[1].value
            /\ \E i \in 1..Len(clients) : HeatingShares[k].device = clients[i]

C28_Witness ==
  /\ cpc = "done"
  /\ cfg.Devices = <<HeatPump, Lights>>
  /\ Len(swept) = 2
  /\ swept[1].kind = "done"
  /\ swept[2].kind = "done"
  /\ CurrentPower(swept[1].status) = 175
  /\ CurrentPower(swept[2].status) = MeterA.Power
  /\ Len(HeatingShares) = 2
  /\ HeatingShares[1].device = U2
  /\ HeatingShares[2].device = U3
  /\ HeatingShares[1].value = [num |-> 17500, den |-> 325]
  /\ HeatingShares[2].value = [num |-> 17500, den |-> 325]

\* ------------------------------------------------------------------------
\* Properties of overlapping and successive scrapes (SpecScrapes)
\* ------------------------------------------------------------------------

\* the records of a device that answered, among records
FullRecordSetIn(records, device, status) ==
  /\ \A q \in RequiredRecords :
       \E n \in 1..Len(records) :
         records[n].device = device /\ records[n].metric = q[1] /\ records[n].labels = q[2]
  /\ \A name \in LabelledOnly :
       \E n \in 1..Len(records) : records[n].device = device /\ records[n].metric = name
  /\ \E n \in 1..Len(records) :
       /\ records[n].device = device
       /\ records[n].metric = "shelly_power_watts"
       /\ records[n].labels = <<"total">>
       /\ records[n].value = status.EM.TotalActPower

\* the reachability records of call k are those of its own answers, in order
OwnReachability(k) ==
  LET ups == SelectSeq(calls[k].emitted, IsUpRecord) IN
  /\ Len(ups) = Len(calls[k].acquired)
  /\ \A i \in 1..Len(ups) :
       /\ ups[i].device = clients[i]
       /\ ups[i].value = (IF calls[k].acquired[i].kind = "done" THEN 1 ELSE 0)

\* the heating power and the grand total of the answers to the sweep of call k
OwnHeating(k) ==
  SumOver(calls[k].swept,
          {i \in 1..Len(calls[k].swept) : CategoryOf(i) = "heating"})
OwnTotal(k) == SumOver(calls[k].swept, 1..Len(calls[k].swept))

\* the heating shares call k sent are those of the answers to its own sweep
OwnShares(k) ==
  \A n \in 1..Len(calls[k].emitted) :
    IsHeatingShare(calls[k].emitted[n]) =>
      /\ calls[k].cpc = "done"
      /\ calls[k].emitted[n].value
           = (IF OwnTotal(k) > 0
              THEN [num |-> 100 * OwnHeating(k), den |-> OwnTotal(k)]
              ELSE [num |-> 0, den |-> 1])

InProgress(k) == calls[k].cpc \in {"devices", "heating"}

C19_State ==
  /\ \A k \in ScrapeIds :
       /\ calls[k].cpc \in {"idle", "devices", "heating", "done"}
       /\ OwnReachability(k)
       /\ OwnShares(k)
       /\ calls[k].cpc = "heating" =>
            /\ accum[k].totalPower = OwnTotal(k)
            /\ PowerOf(accum[k].categoryPower, "heating") = OwnHeating(k)
  /\ readers = Cardinality({k \in ScrapeIds : InProgress(k)})

\* the locals of a call, its bookkeeping aside
Locals(k) == [calls[k] EXCEPT !.after = {}]

\* a step of one call leaves the locals and the aggregates of the other alone,
\* and the collector's configuration and client list as they were
C19_Step ==
  /\ \A k \in ScrapeIds :
       Locals(k)' # Locals(k) =>
         \A j \in ScrapeIds \ {k} : Locals(j)' = Locals(j) /\ accum'[j] = accum[j]
  /\ cfg' = cfg
  /\ clients' = clients

\* C19: when two collection cycles overlap, the records and aggregates of
\* each come only from the answers to its own requests, no cycle writes what
\* the other reads, both may hold the read lock at once, and each cycle that
\* has started runs to its end whatever the other does.
C19_ConcurrentScrapes ==
  /\ []C19_State
  /\ [][C19_Step]_vars
  /\ \A k \in ScrapeIds : InProgress(k) ~> (calls[k].cpc = "done")

C19_Witness ==
  /\ readers = 2
  /\ calls[1].cpc = "heating"
  /\ calls[2].cpc = "heating"
  /\ Len(calls[1].swept) = 1
  /\ Len(calls[2].swept) = 1
  /\ calls[1].swept[1].kind = "done"
  /\ calls[2].swept[1].kind = "failed"
  /\ accum[1].totalPower > 0
  /\ accum[2].totalPower = 0

\* the records call k sent for client i
RecordsFor(k, i) == SelectSeq(calls[k].emitted, LAMBDA m : m.device = clients[i])

\* call k reports client i reachable, with the full record set of its answer
ReportedUp(k, i) ==
  /\ RecordsFor(k, i)[1].metric = "shelly_device_up"
  /\ RecordsFor(k, i)[1].value = 1
  /\ FullRecordSetIn(RecordsFor(k, i), clients[i], calls[k].acquired[i].status)

\* call k reports client i down and sends nothing of a snapshot for it
ReportedDownOnly(k, i) ==
  /\ IsDownRecord(RecordsFor(k, i)[1])
  /\ \A n \in 2..Len(RecordsFor(k, i)) : IsHeatingShare(RecordsFor(k, i)[n])

\* the records call k sent for client i are those of its own answer
OwnRecords(k, i) ==
  IF calls[k].acquired[i].kind = "done" THEN ReportedUp(k, i)
  ELSE ReportedDownOnly(k, i)

\* C20: the output of a finished cycle is that of the answers it received
\* itself: one reachability record per client, the full record set of every
\* device that answered it and none for a device that did not, and the
\* heating shares of its own sweep; in particular a device that failed in an
\* earlier cycle and answers this one is reported reachable with its full
\* record set, and one that answered the earlier cycle and fails this one is
\* reported down with nothing of its earlier snapshot.
C20_NoStateSurvives ==
  \A k \in ScrapeIds :
    calls[k].cpc = "done" =>
      /\ OwnReachability(k)
      /\ Len(calls[k].acquired) = Len(clients)
      /\ \A i \in 1..Len(clients) : OwnRecords(k, i)
      /\ OwnShares(k)
      /\ \A j \in calls[k].after :
           \A i \in 1..Len(clients) :
             /\ (calls[j].acquired[i].kind = "failed"
                  /\ calls[k].acquired[i].kind = "done") => ReportedUp(k, i)
             /\ (calls[j].acquired[i].kind = "done"
                  /\ calls[k].acquired[i].kind = "failed") => ReportedDownOnly(k, i)

C20_Witness ==
  /\ calls[1].cpc = "done"
  /\ calls[2].cpc = "done"
  /\ 1 \in calls[2].after
  /\ calls[1].acquired[1].kind = "failed"
  /\ calls[2].acquired[1].kind = "done"
  /\ FullRecordSetIn(calls[2].emitted, clients[1], calls[2].acquired[1].status)
  /\ calls[1].acquired[2].kind = "done"
  /\ calls[2].acquired[2].kind = "failed"

\* ------------------------------------------------------------------------
\* Properties of the configuration (SpecConfig)
\* ------------------------------------------------------------------------

\* C22: GetAllDeviceURLs returns the bare-URL list followed by the URLs of
\* the metadata list, each group in its own order, nothing dropped and no
\* repeated URL removed; [u1,u2] and [{url:u3},{url:u4}] give [u1,u2,u3,u4].
C22_EndpointUnion ==
  urls.returned =>
    LET bare == conf.ShellyDevices
        tagged == conf.Devices
    IN /\ Len(urls.list) = Len(bare) + Len(tagged)
       /\ \A i \in 1..Len(bare) : urls.list[i] = bare[i]
       /\ \A j \in 1..Len(tagged) : urls.list[Len(bare) + j] = tagged[j].URL
       /\ (bare = <<U1, U2>> /\ tagged = <<Lights, Boiler>>) =>
            urls.list = <<U1, U2, U3, U4>>
       /\ (bare = <<U2, U2>> /\ tagged = <<HeatPump>>) =>
            urls.list = <<U2, U2, U2>>

C22_Witness ==
  /\ urls.returned
  /\ conf.ShellyDevices = <<U1, U2>>
  /\ Len(conf.Devices) = 2
  /\ conf.Devices[1].URL = U3
  /\ conf.Devices[2].URL = U4
  /\ urls.list = <<U1, U2, U3, U4>>

\* the conditions under which a configuration is to be rejected
Rejectable(c) ==
  \/ c.ListenAddress = ""
  \/ c.MetricsPath = ""
  \/ (c.ShellyDevices = <<>> /\ c.Devices = <<>>)
  \/ c.ScrapeInterval <= 0
  \/ c.ScrapeTimeout <= 0
  \/ c.ScrapeTimeout >= c.ScrapeInterval
  \/ \E i \in 1..Len(c.Devices) :
       c.Devices[i].URL = "" \/ c.Devices[i].Name = "" \/ c.Devices[i].Category = ""
  \/ /\ c.CostCalculation.Enabled
     /\ \/ c.CostCalculation.DefaultRate <= 0
        \/ \E i \in 1..Len(c.CostCalculation.Rates) :
             \/ c.CostCalculation.Rates[i].Time = <<>>
             \/ c.CostCalculation.Rates[i].Rate <= 0
  \/ /\ c.TLS.Enabled
     /\ (c.TLS.CertFile = "") # (c.TLS.KeyFile = "")

SkippedAsMalformed(rule) ==
  LET parts == Split(rule.Time) IN
  \/ Len(parts) # 2
  \/ ~ParseClock(parts[1]).ok
  \/ ~ParseClock(parts[2]).ok

\* C24: validation rejects a schedule rule whose time is not of the form
\* "HH:MM-HH:MM": a configuration with cost enabled that Validate accepts has
\* no rule the rate resolver skips as malformed.
C24_AcceptedRulesWellFormed ==
  (verr.returned /\ verr.errors = <<>> /\ conf.CostCalculation.Enabled) =>
    \A i \in 1..Len(conf.CostCalculation.Rates) :
      ~SkippedAsMalformed(conf.CostCalculation.Rates[i])

\* ------------------------------------------------------------------------
\* Properties of the HTTP server (LiveSpecServer)
\* ------------------------------------------------------------------------

\* Start has not returned while its context is not cancelled
BlocksUntilCancelled == server.pc = "returned" => server.cancelled

\* a Start call whose context is cancelled returns
ReturnsAfterCancel ==
  (server.pc = "waiting" /\ server.cancelled) ~> (server.pc = "returned")

\* C25 as stated: Start blocks until its context is cancelled, never returns
\* before that, and after the cancellation shuts the server down and
\* returns nil.
C25_StartReturnsNil ==
  /\ [](BlocksUntilCancelled /\ (server.pc = "returned" => server.err = "nil"))
  /\ ReturnsAfterCancel

\* what a Start call that returns in this step returns
ReturnStep ==
  (server.pc = "shutdown" /\ server'.pc = "returned") =>
     server'.err =
       (IF server.inflight > 0 /\ server.elapsed >= ShutdownTimeout
        THEN "deadline exceeded"
        ELSE IF server.closeFailed THEN "close" ELSE "nil")

\* C25 amended: Start blocks until its context is cancelled and never returns
\* before that; after the cancellation it shuts the server down and returns:
\* nil when the listener closed without error and no request was still being
\* handled when the 30 seconds of the shutdown were over, otherwise the
\* error of the shutdown.
C25_StartReturnsShutdownResult ==
  /\ [](BlocksUntilCancelled
        /\ (server.pc = "returned" <=> server.err # "none")
        /\ (server.pc = "shutdown" => server.cancelled /\ server.listener \in {"closed", "failed"}))
  /\ [][ReturnStep]_vars
  /\ ReturnsAfterCancel

C25_Witness ==
  /\ server.pc = "returned"
  /\ server.cancelled
  /\ server.err = "deadline exceeded"
  /\ server.inflight > 0
  /\ server.listener = "closed"

====
